---- MODULE Spec2Model ----
(***************************************************************************)
(* cronception backend: the crontab parser (app/services/parser.py), the    *)
(* occurrence generator (app/services/occurrences.py) and the repository   *)
(* of stored crontabs (app/db/repository.py).                              *)
(*                                                                         *)
(* A Python str is a sequence of one-character strings, so that strip,     *)
(* split, lower, startswith and the regular expression of _is_env_var are  *)
(* computed on characters as the code computes them.  None is the value    *)
(* None below, which differs from every str.                               *)
(***************************************************************************)
EXTENDS Integers, Sequences, FiniteSets, TLC

VARIABLES
    pc,         \* "start" | "parsed" | "occurrences" | "heatmap"
    raw_text,   \* the text handed to parse_crontab
    result,     \* CrontabParseResult: [jobs, warnings]
    request,    \* the arguments of the last occurrences/heatmap call
    response,   \* what that call returned, or the exception it raised
    crontabs,   \* the committed rows of the table crontabs, by id
    clock,      \* the time datetime.now(timezone.utc) reads
    uuids,      \* how many ids uuid.uuid4() has handed out
    locals      \* the local variables of each repository call in progress

repository == <<crontabs, clock, uuids, locals>>

vars == <<pc, raw_text, result, request, response, crontabs, clock, uuids,
          locals>>

None == <<"None">>

(***************************************************************************)
(* Characters and str methods                                              *)
(***************************************************************************)
LowerLetters ==
    <<"a", "b", "c", "d", "e", "f", "g", "h", "i", "j", "k", "l", "m",
      "n", "o", "p", "q", "r", "s", "t", "u", "v", "w", "x", "y", "z">>

UpperLetters ==
    <<"A", "B", "C", "D", "E", "F", "G", "H", "I", "J", "K", "L", "M",
      "N", "O", "P", "Q", "R", "S", "T", "U", "V", "W", "X", "Y", "Z">>

DigitChars == <<"0", "1", "2", "3", "4", "5", "6", "7", "8", "9">>

Range(f) == {f[i] : i \in DOMAIN f}

Min(S) == CHOOSE x \in S : \A y \in S : x <= y

Max(S) == CHOOSE x \in S : \A y \in S : y <= x

\* The k-th smallest element of a set of integers, k in 1..Cardinality(S).
Nth(S, k) == CHOOSE x \in S : Cardinality({y \in S : y < x}) = k - 1

\* str.isspace() of one character (the characters a text can hold here).
IsSpace(c) == c \in {" ", "\t", "\n", "\r", "\f"}

IsDigit(c) == c \in Range(DigitChars)

IsLetter(c) == c \in Range(LowerLetters) \cup Range(UpperLetters)

\* str.lower() of one character.
LowerChar(c) ==
    IF c \in Range(UpperLetters)
    THEN LowerLetters[CHOOSE i \in DOMAIN UpperLetters : UpperLetters[i] = c]
    ELSE c

lower(s) == [i \in DOMAIN s |-> LowerChar(s[i])]

\* s.strip()
strip(s) ==
    LET keep == {i \in DOMAIN s : ~IsSpace(s[i])}
    IN  IF keep = {} THEN <<>> ELSE SubSeq(s, Min(keep), Max(keep))

\* s.lstrip("#")
lstrip_hash(s) ==
    LET keep == {i \in DOMAIN s : s[i] # "#"}
    IN  IF keep = {} THEN <<>> ELSE SubSeq(s, Min(keep), Len(s))

\* s.startswith(p) for a one-character p
startswith(s, p) == Len(s) >= 1 /\ s[1] = p

\* The positions where a whitespace-delimited token of s starts.
TokenStarts(s) ==
    {i \in DOMAIN s : ~IsSpace(s[i]) /\ (i = 1 \/ IsSpace(s[i - 1]))}

\* The position where the token that starts at i ends.
TokenEnd(s, i) ==
    Min({j \in i..Len(s) : j = Len(s) \/ IsSpace(s[j + 1])})

\* s.split(None, maxsplit): at most maxsplit + 1 parts; when the splits run
\* out, the last part is the rest of the string from the next token on,
\* trailing whitespace included.
split(s, maxsplit) ==
    LET starts == TokenStarts(s)
        n == Cardinality(starts)
        parts == IF n <= maxsplit THEN n ELSE maxsplit + 1
    IN  [k \in 1..parts |->
            LET b == Nth(starts, k)
            IN  IF k = maxsplit + 1
                THEN SubSeq(s, b, Len(s))
                ELSE SubSeq(s, b, TokenEnd(s, b))]

\* " ".join(parts)
RECURSIVE join(_)
join(parts) ==
    IF Len(parts) = 0 THEN <<>>
    ELSE IF Len(parts) = 1 THEN parts[1]
    ELSE parts[1] \o <<" ">> \o join(Tail(parts))

\* str(i) for an integer i >= 0
RECURSIVE str(_)
str(i) ==
    IF i < 10 THEN <<DigitChars[i + 1]>>
    ELSE str(i \div 10) \o <<DigitChars[(i % 10) + 1]>>

\* The positions where a line boundary of str.splitlines() ends: "\n", a
\* lone "\r", and the "\n" of "\r\n".
BreakEnds(s) ==
    {i \in DOMAIN s :
        \/ s[i] = "\n"
        \/ s[i] = "\r" /\ ~(i < Len(s) /\ s[i + 1] = "\n")}

\* The position where the boundary ending at e starts.
BreakStart(s, e) ==
    IF s[e] = "\n" /\ e > 1 /\ s[e - 1] = "\r" THEN e - 1 ELSE e

\* raw_text.splitlines(): no line for the empty rest after a final boundary.
splitlines(s) ==
    LET ends == BreakEnds(s)
        n == Cardinality(ends)
        last == IF n = 0 THEN 0 ELSE Max(ends)
        count == IF last < Len(s) THEN n + 1 ELSE n
    IN  [k \in 1..count |->
            LET b == IF k = 1 THEN 1 ELSE Nth(ends, k - 1) + 1
                e == IF k <= n THEN BreakStart(s, Nth(ends, k)) - 1 ELSE Len(s)
            IN  SubSeq(s, b, e)]

(***************************************************************************)
(* croniter, the external library behind is_valid and get_next.  It is not *)
(* part of the repository; the 5-field grammar modelled is the one of the  *)
(* specification, section 4.2: each field a comma-list of *, N, N-M, */S,  *)
(* N/S, N-M/S with in-range values, and the seven time-based aliases.      *)
(***************************************************************************)
\* The value of a non-empty string of digits.
RECURSIVE NumVal(_)
NumVal(ds) ==
    LET d == CHOOSE i \in DOMAIN DigitChars : DigitChars[i] = ds[Len(ds)]
    IN  IF Len(ds) = 1 THEN d - 1
        ELSE 10 * NumVal(SubSeq(ds, 1, Len(ds) - 1)) + (d - 1)

IsNumber(ds) == Len(ds) >= 1 /\ \A i \in DOMAIN ds : IsDigit(ds[i])

\* s cut at every occurrence of the character c (s.split(c)).
SplitOn(s, c) ==
    LET cuts == {i \in DOMAIN s : s[i] = c}
        n == Cardinality(cuts)
    IN  [k \in 1..(n + 1) |->
            LET b == IF k = 1 THEN 1 ELSE Nth(cuts, k - 1) + 1
                e == IF k <= n THEN Nth(cuts, k) - 1 ELSE Len(s)
            IN  SubSeq(s, b, e)]

\* The value range of field i (1 minute, 2 hour, 3 day of month, 4 month,
\* 5 day of week, where 7 is accepted and means 0).
FieldLo(i) == IF i \in {3, 4} THEN 1 ELSE 0

FieldHi(i) ==
    CASE i = 1 -> 59 [] i = 2 -> 23 [] i = 3 -> 31 [] i = 4 -> 12 [] i = 5 -> 7

BadItem == [ok |-> FALSE, lo |-> 0, hi |-> 0, step |-> 1]

\* The step of an item cut at "/": 1 without a step, 0 for a step outside
\* the grammar.
StepOf(halves) ==
    IF Len(halves) = 1 THEN 1
    ELSE IF Len(halves) = 2 /\ IsNumber(halves[2]) THEN NumVal(halves[2])
    ELSE 0

\* A single number v: v alone, or v to the top of the range before a step.
NumberItem(v, i, stepped) ==
    IF v < FieldLo(i) \/ v > FieldHi(i) THEN BadItem
    ELSE [ok |-> TRUE, lo |-> v, hi |-> IF stepped THEN FieldHi(i) ELSE v,
          step |-> 1]

\* A range a-b.
SpanItem(a, b, i) ==
    IF a < FieldLo(i) \/ b > FieldHi(i) \/ a > b THEN BadItem
    ELSE [ok |-> TRUE, lo |-> a, hi |-> b, step |-> 1]

\* The part of an item before its step: *, a number or a range.
BaseItem(base, ends, i, stepped) ==
    IF base = <<"*">>
    THEN [ok |-> TRUE, lo |-> FieldLo(i), hi |-> FieldHi(i), step |-> 1]
    ELSE IF IsNumber(base) THEN NumberItem(NumVal(base), i, stepped)
    ELSE IF Len(ends) = 2 /\ IsNumber(ends[1]) /\ IsNumber(ends[2])
    THEN SpanItem(NumVal(ends[1]), NumVal(ends[2]), i)
    ELSE BadItem

WithStep(it, step) ==
    IF it.ok /\ step >= 1 THEN [it EXCEPT !.step = step] ELSE BadItem

ItemOfHalves(halves, i) ==
    WithStep(BaseItem(halves[1], SplitOn(halves[1], "-"), i, Len(halves) = 2),
             StepOf(halves))

\* One item of a field: [ok, lo, hi, step]; ok is FALSE for an item outside
\* the grammar or out of range.
FieldItem(item, i) == ItemOfHalves(SplitOn(item, "/"), i)

ValidField(f, i) == \A item \in Range(SplitOn(f, ",")) : FieldItem(item, i).ok

ItemValues(it) == {v \in it.lo..it.hi : (v - it.lo) % it.step = 0}

\* The values field f (valid) selects.
FieldSet(f, i) ==
    {IF i = 5 THEN v % 7 ELSE v :
        v \in UNION {ItemValues(FieldItem(item, i)) : item \in Range(SplitOn(f, ","))}}

\* The 5-field expression an alias stands for (croniter's alias table).
AliasExpansion(schedule) ==
    CASE schedule \in {<<"@", "y", "e", "a", "r", "l", "y">>,
                       <<"@", "a", "n", "n", "u", "a", "l", "l", "y">>}
            -> <<"0", " ", "0", " ", "1", " ", "1", " ", "*">>
      [] schedule = <<"@", "m", "o", "n", "t", "h", "l", "y">>
            -> <<"0", " ", "0", " ", "1", " ", "*", " ", "*">>
      [] schedule = <<"@", "w", "e", "e", "k", "l", "y">>
            -> <<"0", " ", "0", " ", "*", " ", "*", " ", "0">>
      [] schedule \in {<<"@", "d", "a", "i", "l", "y">>,
                       <<"@", "m", "i", "d", "n", "i", "g", "h", "t">>}
            -> <<"0", " ", "0", " ", "*", " ", "*", " ", "*">>
      [] schedule = <<"@", "h", "o", "u", "r", "l", "y">>
            -> <<"0", " ", "*", " ", "*", " ", "*", " ", "*">>
      [] OTHER -> schedule

\* The fields of an expression, aliases expanded.
Fields(schedule) == split(AliasExpansion(schedule), Len(schedule))

FieldsValid(fs) == Len(fs) = 5 /\ \A i \in 1..5 : ValidField(fs[i], i)

\* croniter.is_valid(schedule)
is_valid(schedule) == FieldsValid(Fields(schedule))

(***************************************************************************)
(* app/services/parser.py                                                  *)
(***************************************************************************)
_ALIASES ==
    { <<"@", "y", "e", "a", "r", "l", "y">>,
      <<"@", "a", "n", "n", "u", "a", "l", "l", "y">>,
      <<"@", "m", "o", "n", "t", "h", "l", "y">>,
      <<"@", "w", "e", "e", "k", "l", "y">>,
      <<"@", "d", "a", "i", "l", "y">>,
      <<"@", "m", "i", "d", "n", "i", "g", "h", "t">>,
      <<"@", "h", "o", "u", "r", "l", "y">>,
      <<"@", "r", "e", "b", "o", "o", "t">> }

Reboot == <<"@", "r", "e", "b", "o", "o", "t">>

\* re.match(r"^[A-Za-z_][A-Za-z0-9_]*\s*=", line): an identifier of k
\* characters, whitespace up to position j - 1, and "=" at position j.
_is_env_var(line) ==
    \E k \in 1..Len(line) : \E j \in (k + 1)..Len(line) :
        /\ IsLetter(line[1]) \/ line[1] = "_"
        /\ \A i \in 2..k : IsLetter(line[i]) \/ IsDigit(line[i]) \/ line[i] = "_"
        /\ \A i \in (k + 1)..(j - 1) : IsSpace(line[i])
        /\ line[j] = "="

InvalidMessage(schedule) ==
    <<"I", "n", "v", "a", "l", "i", "d", " ", "c", "r", "o", "n", " ",
      "e", "x", "p", "r", "e", "s", "s", "i", "o", "n", ":", " ", "'">>
    \o schedule \o <<"'">>

\* None for a valid schedule and for @reboot, else the error string.
_validate_schedule(schedule) ==
    IF schedule = Reboot THEN None
    ELSE IF ~is_valid(schedule) THEN InvalidMessage(schedule)
    ELSE None

\* Faulty variant: the alias is compared without lower-casing the token.
_try_parse_cron_line_CaseSensitive(text0) ==
    LET text == strip(text0)
        head == split(text, 1)
        first == head[1]
        parts == split(text, 5)
    IN  IF text = <<>> THEN None
        ELSE IF startswith(first, "@") /\ first \in _ALIASES
        THEN <<first, IF Len(head) > 1 THEN strip(head[2]) ELSE <<>> >>
        ELSE IF Len(parts) >= 5
        THEN <<join(SubSeq(parts, 1, 5)),
               IF Len(parts) > 5 THEN strip(parts[6]) ELSE <<>> >>
        ELSE None

\* Faulty variant: text.split() without maxsplit, so the command is the
\* sixth token alone.
_try_parse_cron_line_SixthToken(text0) ==
    LET text == strip(text0)
        head == split(text, 1)
        first == head[1]
        parts == split(text, Len(text))
    IN  IF text = <<>> THEN None
        ELSE IF startswith(first, "@") /\ lower(first) \in _ALIASES
        THEN <<lower(first), IF Len(head) > 1 THEN strip(head[2]) ELSE <<>> >>
        ELSE IF Len(parts) >= 5
        THEN <<join(SubSeq(parts, 1, 5)),
               IF Len(parts) > 5 THEN strip(parts[6]) ELSE <<>> >>
        ELSE None

\* <<schedule, command>>, or None when the text does not look like a cron
\* line.
_try_parse_cron_line(text0) ==
    LET text == strip(text0)
        head == split(text, 1)
        first == head[1]
        parts == split(text, 5)
    IN  IF text = <<>> THEN None
        ELSE IF startswith(first, "@") /\ lower(first) \in _ALIASES
        THEN <<lower(first), IF Len(head) > 1 THEN strip(head[2]) ELSE <<>> >>
        ELSE IF Len(parts) >= 5
        THEN <<join(SubSeq(parts, 1, 5)),
               IF Len(parts) > 5 THEN strip(parts[6]) ELSE <<>> >>
        ELSE None

ParsedJob(i, line, schedule, command, enabled, error) ==
    [line_number |-> i, raw_line |-> line, schedule |-> schedule,
     command |-> command, enabled |-> enabled, error |-> error]

UnrecognisedWarning(i) ==
    <<"L", "i", "n", "e", " ">> \o str(i)
    \o <<":", " ", "u", "n", "r", "e", "c", "o", "g", "n", "i", "s", "e", "d",
         " ", "f", "o", "r", "m", "a", "t", ",", " ", "s", "k", "i", "p", "p",
         "e", "d">>

ErrorWarning(i, error) ==
    <<"L", "i", "n", "e", " ">> \o str(i) \o <<":", " ">> \o error

\* Faulty variant: a commented line that extracts is recorded as a disabled
\* job whether or not its schedule is valid.
CommentedLine_Unchecked(i, line, stripped) ==
    LET inner == strip(lstrip_hash(stripped))
        parsed == _try_parse_cron_line(inner)
    IN  IF parsed = None
        THEN [jobs |-> <<>>, warnings |-> <<>>]
        ELSE [jobs |-> <<ParsedJob(i, line, parsed[1], parsed[2], FALSE, None)>>,
              warnings |-> <<>>]

\* Faulty variant: the job of a commented line is recorded as enabled.
CommentedLine_Enabled(i, line, stripped) ==
    LET inner == strip(lstrip_hash(stripped))
        parsed == _try_parse_cron_line(inner)
    IN  IF parsed = None
        THEN [jobs |-> <<>>, warnings |-> <<>>]
        ELSE IF parsed[1] # Reboot /\ ~is_valid(parsed[1])
        THEN [jobs |-> <<>>, warnings |-> <<>>]
        ELSE [jobs |-> <<ParsedJob(i, line, parsed[1], parsed[2], TRUE, None)>>,
              warnings |-> <<>>]

\* Faulty variant: the @reboot exemption is missing, so a commented @reboot
\* line is dropped as prose.
CommentedLine_RebootDropped(i, line, stripped) ==
    LET inner == strip(lstrip_hash(stripped))
        parsed == _try_parse_cron_line(inner)
    IN  IF parsed = None
        THEN [jobs |-> <<>>, warnings |-> <<>>]
        ELSE IF ~is_valid(parsed[1])
        THEN [jobs |-> <<>>, warnings |-> <<>>]
        ELSE [jobs |-> <<ParsedJob(i, line, parsed[1], parsed[2], FALSE, None)>>,
              warnings |-> <<>>]

\* A commented line (stripped starts with "#"): the jobs and warnings it adds.
CommentedLine(i, line, stripped) ==
    LET inner == strip(lstrip_hash(stripped))
        parsed == _try_parse_cron_line(inner)
    IN  IF parsed = None
        THEN [jobs |-> <<>>, warnings |-> <<>>]
        ELSE IF parsed[1] # Reboot /\ ~is_valid(parsed[1])
        THEN [jobs |-> <<>>, warnings |-> <<>>]
        ELSE [jobs |-> <<ParsedJob(i, line, parsed[1], parsed[2], FALSE, None)>>,
              warnings |-> <<>>]

\* Faulty variant: a line with an invalid schedule is warned about and
\* skipped instead of recorded.
UncommentedLine_DropInvalid(i, line, stripped) ==
    LET parsed == _try_parse_cron_line(stripped)
        error == _validate_schedule(parsed[1])
    IN  IF parsed = None
        THEN [jobs |-> <<>>, warnings |-> <<UnrecognisedWarning(i)>>]
        ELSE IF error # None
        THEN [jobs |-> <<>>, warnings |-> <<ErrorWarning(i, error)>>]
        ELSE [jobs |-> <<ParsedJob(i, line, parsed[1], parsed[2], TRUE, error)>>,
              warnings |-> <<>>]

\* Faulty variant: an unrecognised line is skipped without a warning.
UncommentedLine_Silent(i, line, stripped) ==
    LET parsed == _try_parse_cron_line(stripped)
        error == _validate_schedule(parsed[1])
    IN  IF parsed = None
        THEN [jobs |-> <<>>, warnings |-> <<>>]
        ELSE [jobs |-> <<ParsedJob(i, line, parsed[1], parsed[2], TRUE, error)>>,
              warnings |-> IF error # None THEN <<ErrorWarning(i, error)>>
                           ELSE <<>>]

\* An uncommented line that is neither blank nor an environment assignment.
UncommentedLine(i, line, stripped) ==
    LET parsed == _try_parse_cron_line(stripped)
        error == _validate_schedule(parsed[1])
    IN  IF parsed = None
        THEN [jobs |-> <<>>, warnings |-> <<UnrecognisedWarning(i)>>]
        ELSE [jobs |-> <<ParsedJob(i, line, parsed[1], parsed[2], TRUE, error)>>,
              warnings |-> IF error # None THEN <<ErrorWarning(i, error)>>
                           ELSE <<>>]

\* Faulty variant: environment assignments are not recognised.
ParseLine_NoEnv(i, line) ==
    LET stripped == strip(line)
    IN  IF stripped = <<>> THEN [jobs |-> <<>>, warnings |-> <<>>]
        ELSE IF startswith(stripped, "#") THEN CommentedLine(i, line, stripped)
        ELSE UncommentedLine(i, line, stripped)

\* The body of parse_crontab's loop for line i: what it appends.
ParseLine(i, line) ==
    LET stripped == strip(line)
    IN  IF stripped = <<>> THEN [jobs |-> <<>>, warnings |-> <<>>]
        ELSE IF _is_env_var(stripped) THEN [jobs |-> <<>>, warnings |-> <<>>]
        ELSE IF startswith(stripped, "#") THEN CommentedLine(i, line, stripped)
        ELSE UncommentedLine(i, line, stripped)

\* Faulty variant: enumerate without start=1.
LineNumber_ZeroBased(k) == k - 1

\* enumerate(raw_text.splitlines(), start=1): the 1-based number of the
\* k-th line.
LineNumber(k) == k

\* The loop of parse_crontab over lines k..Len(lines).
RECURSIVE ParseFrom(_, _)
ParseFrom(lines, k) ==
    IF k > Len(lines) THEN [jobs |-> <<>>, warnings |-> <<>>]
    ELSE LET here == ParseLine(LineNumber(k), lines[k])
             rest == ParseFrom(lines, k + 1)
         IN  [jobs |-> here.jobs \o rest.jobs,
              warnings |-> here.warnings \o rest.warnings]

parse_crontab(text) == ParseFrom(splitlines(text), 1)

(***************************************************************************)
(* Time.  An instant is a whole number of ticks since 2024-01-01T00:00:00Z *)
(* (a Monday); a second has TicksPerSecond ticks, so that instants between *)
(* whole seconds exist.  A datetime argument is [wall, tz]: its wall-clock *)
(* reading in ticks and tz = <<>> for a naive datetime or <<offset>> for   *)
(* one with a UTC offset; an optional datetime is <<>> (None) or <<dt>>.   *)
(***************************************************************************)
TicksPerSecond == 2

Second == TicksPerSecond

Minute == 60 * Second

Hour == 60 * Minute

Day == 24 * Hour

MinutesPerDay == 24 * 60

\* The first day of each month of 2024, in days since 2024-01-01, and the
\* first day of 2025.
MonthStart == <<0, 31, 60, 91, 121, 152, 182, 213, 244, 274, 305, 335, 366>>

\* The same for a year of 365 days.
CommonMonthStart == <<0, 31, 59, 90, 120, 151, 181, 212, 243, 273, 304, 334, 365>>

\* Four years from 2024-01-01: one leap year and three common years.
FourYears == 366 + 3 * 365

\* Month and day of month of day n of a year whose months start at starts.
DayOfYear(starts, n) ==
    LET k == CHOOSE k \in 1..12 : starts[k] <= n /\ n < starts[k + 1]
    IN  [month |-> k, day |-> n - starts[k] + 1]

\* Month and day of month of day d (days since 2024-01-01, from December
\* 2023 to the end of the century).
CalendarDay(d) ==
    IF d < 0 THEN [month |-> 12, day |-> 32 + d]
    ELSE IF d % FourYears < 366 THEN DayOfYear(MonthStart, d % FourYears)
    ELSE DayOfYear(CommonMonthStart, ((d % FourYears) - 366) % 365)

\* datetime.weekday() of day d: Monday is 0.
Weekday(d) == d % 7

\* datetime.hour of the instant at minute m since the epoch.
HourOf(m) == (m % MinutesPerDay) \div 60

(***************************************************************************)
(* croniter(schedule, start).get_next: the matching instants are whole     *)
(* minutes; the first one returned is the earliest match later than start  *)
(* cut to whole seconds, each further one the next match.  Day of month    *)
(* and day of week combine with OR when both are restricted.               *)
(***************************************************************************)
ExpandFields(fs) ==
    [sets |-> <<FieldSet(fs[1], 1), FieldSet(fs[2], 2), FieldSet(fs[3], 3),
               FieldSet(fs[4], 4), FieldSet(fs[5], 5)>>,
     anyDay |-> fs[3] = <<"*">>, anyWeekday |-> fs[5] = <<"*">>]

\* The value sets of the five fields of a valid schedule: 1 minute, 2 hour,
\* 3 day of month, 4 month, 5 day of week.
Expand(schedule) == ExpandFields(Fields(schedule))

\* Whether the date cal, that falls on croniter's day of week w (Sunday is
\* 0), satisfies the three date fields.
DateMatches(exp, cal, w) ==
    /\ cal.month \in exp.sets[4]
    /\ \/ exp.anyDay /\ exp.anyWeekday
       \/ ~exp.anyDay /\ cal.day \in exp.sets[3]
       \/ ~exp.anyWeekday /\ w \in exp.sets[5]

\* Whether day d (days since the epoch) satisfies the three date fields.
DayMatches(exp, d) == DateMatches(exp, CalendarDay(d), (Weekday(d) + 1) % 7)

MinutesOn(exp, days, lo, hi) ==
    {m \in lo..hi : /\ (m \div MinutesPerDay) \in days
                    /\ HourOf(m) \in exp.sets[2]
                    /\ (m % 60) \in exp.sets[1]}

MinutesOf(exp, lo, hi) ==
    MinutesOn(exp, {d \in (lo \div MinutesPerDay)..(hi \div MinutesPerDay) :
                      DayMatches(exp, d)}, lo, hi)

\* The matching minutes (minutes since the epoch) m with lo <= m <= hi.
MatchingMinutes(schedule, lo, hi) == MinutesOf(Expand(schedule), lo, hi)

\* The first minute croniter(schedule, start).get_next can return: the
\* earliest whole minute later than start cut to whole seconds.
FirstMinuteAfter(start) == (((start \div Second) * Second) \div Minute) + 1

\* The k smallest elements of a set of integers.
Smallest(S, k) ==
    IF Cardinality(S) <= k THEN S
    ELSE {m \in S : Cardinality({x \in S : x < m}) < k}

(***************************************************************************)
(* app/services/occurrences.py                                             *)
(***************************************************************************)
_SKIP_SCHEDULES == {Reboot}

_PER_JOB_MAX == 50000

_NOISY_THRESHOLD == 5

_NOISY_TEST_FROM == 0

_NOISY_TEST_TO == 2 * Day

DefaultWindowDays == 30

\* (now, now + timedelta(days=29))
_default_window_Short(now) == <<now, now + (DefaultWindowDays - 1) * Day>>

\* (now, now + timedelta(days=30))
_default_window(now) == <<now, now + DefaultWindowDays * Day>>

\* None: the default; naive: taken as UTC; else the same instant in UTC.
_ensure_utc(dt, default) ==
    IF dt = <<>> THEN default
    ELSE IF dt[1].tz = <<>> THEN dt[1].wall
    ELSE dt[1].wall - dt[1].tz[1]

\* The elements of a sequence at the positions in keep, in order.
SelectAt(seq, keep) == [i \in 1..Cardinality(keep) |-> seq[Nth(keep, i)]]

_eligible_jobs(jobs, include_disabled) ==
    SelectAt(jobs, {k \in DOMAIN jobs :
                      /\ include_disabled \/ jobs[k].enabled
                      /\ jobs[k].error = None
                      /\ jobs[k].schedule \notin _SKIP_SCHEDULES})

\* The instants _iter_schedule yields, in ascending order: the matches in
\* [from_dt - 1 s cut to seconds, to_dt], at most _PER_JOB_MAX of them; none
\* when croniter rejects the schedule (ValueError, caught).
_iter_schedule(schedule, from_dt, to_dt) ==
    IF ~is_valid(schedule) THEN {}
    ELSE {m * Minute :
            m \in Smallest(MatchingMinutes(schedule,
                                           FirstMinuteAfter(from_dt - Second),
                                           to_dt \div Minute),
                           _PER_JOB_MAX)}

_iter_job_datetimes(job, from_dt, to_dt) ==
    _iter_schedule(job.schedule, from_dt, to_dt)

_is_noisy(schedule) ==
    Cardinality(_iter_schedule(schedule, _NOISY_TEST_FROM, _NOISY_TEST_TO))
        > _NOISY_THRESHOLD * ((_NOISY_TEST_TO - _NOISY_TEST_FROM) \div Day)

\* The distinct noisy schedules among the eligible jobs when hide_noisy is
\* set, none otherwise.
NoisySchedules(eligible, hide_noisy) ==
    IF hide_noisy
    THEN {eligible[k].schedule : k \in {k \in DOMAIN eligible :
                                          _is_noisy(eligible[k].schedule)}}
    ELSE {}

\* The jobs left after the noisy filter.
RemainingJobs(eligible, noisy) ==
    SelectAt(eligible, {k \in DOMAIN eligible : eligible[k].schedule \notin noisy})

PairBefore(p, q) == p[1] < q[1] \/ (p[1] = q[1] /\ p[2] < q[2])

\* The elements of a finite set of pairs of integers in lexicographic order.
InOrder(all) ==
    [i \in 1..Cardinality(all) |->
        CHOOSE p \in all : Cardinality({q \in all : PairBefore(q, p)}) = i - 1]

\* The (job position, instant) pairs in the order the nested loops produce
\* them: job by job, each job's instants ascending.
GeneratedPairs(eligible, from_dt, to_dt) ==
    InOrder(UNION {{<<k, dt>> : dt \in _iter_job_datetimes(eligible[k], from_dt, to_dt)} :
                     k \in DOMAIN eligible})

\* pairs.sort(key=lambda x: x[0]): ascending by instant, pairs with the same
\* instant in their order in the list (the sort is stable).
SortByInstant(pairs) ==
    [r \in 1..Len(pairs) |->
        pairs[CHOOSE i \in DOMAIN pairs :
                 Cardinality({j \in DOMAIN pairs :
                                \/ pairs[j][2] < pairs[i][2]
                                \/ (pairs[j][2] = pairs[i][2] /\ j < i)}) = r - 1]]

\* Whether the object has the attribute; reading a missing one raises
\* AttributeError.
HasAttr(obj, name) == name \in DOMAIN obj

\* The dict appended for one occurrence of a job.
OccurrenceItem(job, dt) ==
    [schedule |-> job.schedule, command |-> job.command,
     enabled |-> job.enabled, at |-> dt, description |-> job.description]

AttributeError == [raised |-> TRUE, exception |-> "AttributeError"]

\* pairs[:limit] as the items of the response.
Truncated(eligible, sorted, limit) ==
    [i \in 1..Min({limit, Len(sorted)}) |->
        OccurrenceItem(eligible[sorted[i][1]], sorted[i][2])]

\* The generation loop, the sort and the truncation; the loop raises when
\* it reads job.description of a job that has none.
MergedOccurrences(eligible, pairs, from_dt, to_dt, limit, filtered_noisy_count) ==
    IF \E i \in DOMAIN pairs : ~HasAttr(eligible[pairs[i][1]], "description")
    THEN AttributeError
    ELSE [raised |-> FALSE, from_dt |-> from_dt, to_dt |-> to_dt,
          items |-> Truncated(eligible, SortByInstant(pairs), limit),
          filtered_noisy_count |-> filtered_noisy_count]

OccurrencesOfRemaining(eligible, from_dt, to_dt, limit, filtered_noisy_count) ==
    MergedOccurrences(eligible, GeneratedPairs(eligible, from_dt, to_dt),
                      from_dt, to_dt, limit, filtered_noisy_count)

OccurrencesOfEligible(eligible, noisy, from_dt, to_dt, limit) ==
    OccurrencesOfRemaining(RemainingJobs(eligible, noisy), from_dt, to_dt, limit,
                           Cardinality(noisy))

\* The response of occurrences_for_window, or the exception it raises.
occurrences_for_window(jobs, from_dt, to_dt, limit, include_disabled, hide_noisy, now) ==
    OccurrencesOfEligible(
        _eligible_jobs(jobs, include_disabled),
        NoisySchedules(_eligible_jobs(jobs, include_disabled), hide_noisy),
        _ensure_utc(from_dt, _default_window(now)[1]),
        _ensure_utc(to_dt, _default_window(now)[2]),
        limit)

\* (dt.hour, dt.weekday()) of an instant.
CellKey(dt) == <<HourOf(dt \div Minute), Weekday(dt \div Day)>>

\* counts[key], for the keys that occur.
CellOf(key, pairs) ==
    [hour |-> key[1], day |-> key[2],
     count |-> Cardinality({i \in DOMAIN pairs : CellKey(pairs[i][2]) = key})]

\* The cells in descending order of their keys.
Cells_Reversed(keys, pairs) ==
    [r \in 1..Len(keys) |-> CellOf(keys[Len(keys) + 1 - r], pairs)]

\* The cells in the order of sorted(counts.items()).
Cells(keys, pairs) == [r \in 1..Len(keys) |-> CellOf(keys[r], pairs)]

HeatmapOfCells(cells, from_dt, to_dt, filtered_noisy_count) ==
    [raised |-> FALSE, from_dt |-> from_dt, to_dt |-> to_dt, cells |-> cells,
     max_count |-> IF Len(cells) = 0 THEN 0
                   ELSE Max({cells[r].count : r \in DOMAIN cells}),
     filtered_noisy_count |-> filtered_noisy_count]

HeatmapOfPairs(pairs, from_dt, to_dt, filtered_noisy_count) ==
    HeatmapOfCells(Cells(InOrder({CellKey(pairs[i][2]) : i \in DOMAIN pairs}), pairs),
                   from_dt, to_dt, filtered_noisy_count)

HeatmapOfEligible(eligible, noisy, from_dt, to_dt) ==
    HeatmapOfPairs(GeneratedPairs(RemainingJobs(eligible, noisy), from_dt, to_dt),
                   from_dt, to_dt, Cardinality(noisy))

heatmap_for_window(jobs, from_dt, to_dt, include_disabled, hide_noisy, now) ==
    HeatmapOfEligible(
        _eligible_jobs(jobs, include_disabled),
        NoisySchedules(_eligible_jobs(jobs, include_disabled), hide_noisy),
        _ensure_utc(from_dt, _default_window(now)[1]),
        _ensure_utc(to_dt, _default_window(now)[2]))

(***************************************************************************)
(* Input texts.  A line is built from a style (what precedes the first     *)
(* token, what separates tokens, what follows the last one, and the line   *)
(* boundary after it) and a body (its tokens).                             *)
(***************************************************************************)
MaxLines == 2

Star == <<"*">>

Plain ==
    [prefix |-> <<>>, sep |-> <<" ">>, trail |-> <<>>,
     brk |-> <<"\n">>, closed |-> FALSE]

Commented ==
    [prefix |-> <<"#">>, sep |-> <<" ">>, trail |-> <<>>,
     brk |-> <<"\n">>, closed |-> FALSE]

WideCommented ==
    [prefix |-> <<" ", "#", "#", "\t">>, sep |-> <<" ", " ">>, trail |-> <<" ">>,
     brk |-> <<"\r", "\n">>, closed |-> TRUE]

Wide ==
    [prefix |-> <<"\t">>, sep |-> <<" ", "\t">>, trail |-> <<" ">>,
     brk |-> <<"\r">>, closed |-> TRUE]

ValidBody == <<Star, Star, Star, Star, Star, <<"a">>, <<"b">> >>

NoCommandBody == << <<"0">>, <<"0">>, Star, Star, Star>>

InvalidBody == << <<"9", "9">>, Star, Star, Star, Star, <<"c">> >>

AliasBody == << <<"@", "D", "a", "i", "l", "y">>, <<"a">> >>

RebootBody == << <<"@", "r", "e", "b", "o", "o", "t">> >>

BareNameBody == << <<"d", "a", "i", "l", "y">>, <<"a">> >>

EnvBody == << <<"A", "=", "b">> >>

SpacedEnvBody == << <<"A">>, <<"=">>, Star, Star, Star, <<"8">> >>

FourFieldBody == <<Star, Star, Star, Star>>

Bodies ==
    { <<>>, ValidBody, NoCommandBody, InvalidBody, AliasBody, RebootBody,
      BareNameBody, EnvBody, SpacedEnvBody, FourFieldBody }

CommentedBodies ==
    { <<>>, ValidBody, InvalidBody, AliasBody, RebootBody, BareNameBody }

WideBodies == { ValidBody, AliasBody }

\* The tokens of a body, sep between them.
RECURSIVE JoinWith(_, _)
JoinWith(tokens, sep) ==
    IF Len(tokens) = 0 THEN <<>>
    ELSE IF Len(tokens) = 1 THEN tokens[1]
    ELSE tokens[1] \o sep \o JoinWith(Tail(tokens), sep)

LineOf(style, body) ==
    [text |-> style.prefix \o JoinWith(body, style.sep) \o style.trail,
     brk |-> style.brk, closed |-> style.closed]

\* The lines in order, each followed by its boundary; the last one only if
\* its style closes it.
RECURSIVE TextOf(_)
TextOf(ls) ==
    IF Len(ls) = 0 THEN <<>>
    ELSE IF Len(ls) = 1
    THEN ls[1].text \o (IF ls[1].closed THEN ls[1].brk ELSE <<>>)
    ELSE ls[1].text \o ls[1].brk \o TextOf(Tail(ls))

TextsOver(lines, n) == {TextOf(ls) : ls \in UNION {[1..k -> lines] : k \in 0..n}}

ParserLines ==
    {LineOf(Plain, b) : b \in Bodies}
    \cup {LineOf(Commented, b) : b \in CommentedBodies}
    \cup {LineOf(st, b) : st \in {WideCommented, Wide}, b \in WideBodies}

NoResult == [jobs |-> <<>>, warnings |-> <<>>]

\* No database is open: the parser and the occurrence generator use none.
NoRepository ==
    /\ crontabs = <<>>
    /\ clock = 0
    /\ uuids = 0
    /\ locals = <<>>

(***************************************************************************)
(* The parser alone: POST /api/crontabs/parse on any text.                 *)
(***************************************************************************)
Init ==
    /\ pc = "start"
    /\ raw_text \in TextsOver(ParserLines, MaxLines)
    /\ result = NoResult
    /\ request = None
    /\ response = None
    /\ NoRepository

Parse ==
    /\ pc = "start"
    /\ result' = parse_crontab(raw_text)
    /\ pc' = "parsed"
    /\ UNCHANGED <<raw_text, request, response, repository>>

Next == Parse

Spec == Init /\ [][Next]_vars

(***************************************************************************)
(* The occurrence generator and the heatmap aggregator, called on the jobs *)
(* parsed from a crontab.                                                  *)
(***************************************************************************)
MaxJobLines == 2

EveryMinuteBody == <<Star, Star, Star, Star, Star, <<"a">> >>

MidnightBody == << <<"@", "d", "a", "i", "l", "y">>, <<"d">> >>

OnePastMidnightBody == << <<"1">>, <<"0">>, Star, Star, Star, <<"e">> >>

HourlyBody == << <<"0">>, Star, Star, Star, Star, <<"h">> >>

JobLines ==
    {LineOf(Plain, b) :
        b \in {EveryMinuteBody, MidnightBody, OnePastMidnightBody, HourlyBody,
               InvalidBody, RebootBody}}
    \cup {LineOf(Commented, EveryMinuteBody)}

\* The crontabs of at most n lines, no line twice.
DistinctTextsOver(lines, n) ==
    {TextOf(ls) : ls \in {f \in UNION {[1..k -> lines] : k \in 0..n} :
                             \A i, j \in DOMAIN f : i # j => f[i] # f[j]}}

Naive(t) == << [wall |-> t, tz |-> <<>>] >>

Zoned(t, offset) == << [wall |-> t, tz |-> <<offset>>] >>

DefaultLimit == 500

\* The (from_dt, to_dt) arguments: two minutes either side of midnight; from
\* 00:00:30 to 00:03:30; an empty window; an empty window from one tick past
\* midnight back to midnight; from_dt absent and to_dt half a second past
\* 01:01 at UTC+1, that is 00:01:00.5 UTC.
Windows ==
    { <<Naive(-2 * Minute), Naive(2 * Minute)>>,
      <<Naive(30 * Second), Naive(3 * Minute + 30 * Second)>>,
      <<Naive(2 * Minute), Naive(Minute)>>,
      <<Naive(1), Naive(0)>>,
      << <<>>, Zoned(Hour + Minute + 1, Hour)>> }

Limits == {1, DefaultLimit}

\* datetime.now(timezone.utc) during the call: one tick past midnight.
Nows == {1}

InitOcc ==
    /\ pc = "start"
    /\ raw_text \in DistinctTextsOver(JobLines, MaxJobLines)
    /\ result = NoResult
    /\ request = None
    /\ response = None
    /\ NoRepository

CallOccurrences ==
    /\ pc = "parsed"
    /\ \E w \in Windows, limit \in Limits, include_disabled \in BOOLEAN,
          hide_noisy \in BOOLEAN, now \in Nows :
          /\ request' = [from_dt |-> w[1], to_dt |-> w[2], limit |-> limit,
                         include_disabled |-> include_disabled,
                         hide_noisy |-> hide_noisy, now |-> now]
          /\ response' = occurrences_for_window(result.jobs, w[1], w[2], limit,
                                                include_disabled, hide_noisy, now)
    /\ pc' = "occurrences"
    /\ UNCHANGED <<raw_text, result, repository>>

CallHeatmap ==
    /\ pc = "parsed"
    /\ \E w \in Windows, include_disabled \in BOOLEAN, hide_noisy \in BOOLEAN,
          now \in Nows :
          /\ request' = [from_dt |-> w[1], to_dt |-> w[2], limit |-> DefaultLimit,
                         include_disabled |-> include_disabled,
                         hide_noisy |-> hide_noisy, now |-> now]
          /\ response' = heatmap_for_window(result.jobs, w[1], w[2],
                                            include_disabled, hide_noisy, now)
    /\ pc' = "heatmap"
    /\ UNCHANGED <<raw_text, result, repository>>

NextOcc == Parse \/ CallOccurrences \/ CallHeatmap

SpecOcc == InitOcc /\ [][NextOcc]_vars

(***************************************************************************)
(* Properties of the parser.  They are stated on the state after Parse:    *)
(* raw_text is the input and result what parse_crontab returned for it.    *)
(***************************************************************************)
Parsed == pc # "start"

Lines == splitlines(raw_text)

Jobs == result.jobs

Warnings == result.warnings

\* The positions in Jobs of the jobs recorded for line i.
JobsOn(i) == {k \in DOMAIN Jobs : Jobs[k].line_number = i}

HasPrefix(w, p) == Len(w) >= Len(p) /\ SubSeq(w, 1, Len(p)) = p

\* The positions in Warnings of the warnings about line i ("Line i: ...").
WarningsOn(i) ==
    {k \in DOMAIN Warnings :
        HasPrefix(Warnings[k], <<"L", "i", "n", "e", " ">> \o str(i) \o <<":", " ">>)}

IsBlank(line) == \A k \in DOMAIN line : IsSpace(line[k])

IsCommentLine(line) == ~IsBlank(line) /\ startswith(strip(line), "#")

\* A line the parser hands to extraction as it is (step 4 of the parser).
IsUncommentedLine(line) ==
    ~IsBlank(line) /\ ~_is_env_var(strip(line)) /\ ~startswith(strip(line), "#")

\* The text extraction runs on: the trimmed line, without its leading #s
\* for a comment line.
ExtractionText(line) ==
    IF IsCommentLine(line) THEN strip(lstrip_hash(strip(line))) ELSE strip(line)

ReachesExtraction(line) == IsCommentLine(line) \/ IsUncommentedLine(line)

\* All whitespace-delimited tokens of a text.
Tokens(text) == split(text, Len(text))

\* Token f equals one of the 8 aliases, letter case ignored.
IsAliasToken(f) ==
    \E a \in _ALIASES :
        Len(a) = Len(f) /\ \A k \in DOMAIN a : LowerChar(f[k]) = a[k]

\* The schedule is neither @reboot nor a valid expression.
InvalidSchedule(schedule) == schedule # Reboot /\ ~is_valid(schedule)

\* C1: the jobs are in source-line order (line_number strictly increasing
\* along the list) and each job's line_number is the 1-based index of the
\* physical line it was read from, skipped lines counted.
C1_LineOrder ==
    Parsed =>
        /\ \A k \in 1..(Len(Jobs) - 1) :
              Jobs[k].line_number < Jobs[k + 1].line_number
        /\ \A k \in DOMAIN Jobs :
              /\ Jobs[k].line_number \in 1..Len(Lines)
              /\ Lines[Jobs[k].line_number] = Jobs[k].raw_line

\* A job read from line 2 after a line that produced no job.
C1_Witness ==
    Parsed /\ Len(Jobs) = 1 /\ Jobs[1].line_number = 2 /\ Len(Lines) = 2

\* C2: a job has an error only if it is enabled and its schedule is an
\* invalid non-alias expression; a disabled job has no error, and its
\* schedule is valid or @reboot.
C2_ErrorOnlyOnEnabled ==
    Parsed =>
        \A k \in DOMAIN Jobs :
            /\ Jobs[k].error # None =>
                  /\ Jobs[k].enabled
                  /\ Jobs[k].schedule \notin _ALIASES
                  /\ ~is_valid(Jobs[k].schedule)
            /\ ~Jobs[k].enabled =>
                  /\ Jobs[k].error = None
                  /\ ~InvalidSchedule(Jobs[k].schedule)

\* A commented line with an invalid schedule was discarded and another job
\* carries an error.
C2_Witness ==
    /\ Parsed
    /\ \E i \in DOMAIN Lines :
          /\ IsCommentLine(Lines[i])
          /\ _try_parse_cron_line(ExtractionText(Lines[i])) # None
          /\ InvalidSchedule(_try_parse_cron_line(ExtractionText(Lines[i]))[1])
    /\ \E k \in DOMAIN Jobs : Jobs[k].error # None

\* C3: a comment line whose remainder extracts adds no job and no warning
\* when the schedule is invalid and not @reboot, and otherwise exactly one
\* job, disabled and without error, and no warning.
C3_CommentedJobLine ==
    Parsed =>
        \A i \in DOMAIN Lines :
            LET parsed == _try_parse_cron_line(ExtractionText(Lines[i]))
            IN  (IsCommentLine(Lines[i]) /\ parsed # None) =>
                    /\ WarningsOn(i) = {}
                    /\ IF InvalidSchedule(parsed[1])
                       THEN JobsOn(i) = {}
                       ELSE /\ Cardinality(JobsOn(i)) = 1
                            /\ \A k \in JobsOn(i) :
                                  /\ ~Jobs[k].enabled
                                  /\ Jobs[k].error = None
                                  /\ Jobs[k].schedule = parsed[1]

\* A commented @reboot line was recorded as a disabled job, and a commented
\* line with an invalid schedule was dropped.
C3_Witness ==
    /\ Parsed
    /\ \E k \in DOMAIN Jobs : ~Jobs[k].enabled /\ Jobs[k].schedule = Reboot
    /\ \E i \in DOMAIN Lines :
          /\ IsCommentLine(Lines[i])
          /\ _try_parse_cron_line(ExtractionText(Lines[i])) # None
          /\ JobsOn(i) = {}

\* The message for an invalid schedule, as the claim spells it.
C4_Message(schedule) ==
    <<"I", "n", "v", "a", "l", "i", "d", " ", "c", "r", "o", "n", " ",
      "e", "x", "p", "r", "e", "s", "s", "i", "o", "n", ":", " ", "'">>
    \o schedule \o <<"'">>

\* C4: an uncommented line that extracts to an invalid 5-field schedule adds
\* exactly one job, enabled, with error "Invalid cron expression: '<s>'",
\* and exactly one warning "Line N: Invalid cron expression: '<s>'"; the
\* lines after it are still parsed.
C4_InvalidKept ==
    Parsed =>
        \A i \in DOMAIN Lines :
            LET parsed == _try_parse_cron_line(ExtractionText(Lines[i]))
            IN  (/\ IsUncommentedLine(Lines[i])
                 /\ parsed # None
                 /\ InvalidSchedule(parsed[1])) =>
                    /\ Cardinality(JobsOn(i)) = 1
                    /\ \A k \in JobsOn(i) :
                          /\ Jobs[k].enabled
                          /\ Jobs[k].schedule = parsed[1]
                          /\ Jobs[k].error = C4_Message(parsed[1])
                    /\ Cardinality(WarningsOn(i)) = 1
                    /\ \A k \in WarningsOn(i) :
                          Warnings[k] = <<"L", "i", "n", "e", " ">> \o str(i)
                                        \o <<":", " ">> \o C4_Message(parsed[1])
                    /\ \A j \in (i + 1)..Len(Lines) :
                          /\ Len(ParseLine(j, Lines[j]).jobs) = Cardinality(JobsOn(j))
                          /\ Len(ParseLine(j, Lines[j]).warnings)
                                = Cardinality(WarningsOn(j))

\* An invalid uncommented line is followed by a line that gave a job.
C4_Witness ==
    /\ Parsed
    /\ Len(Jobs) = 2
    /\ Jobs[1].error # None
    /\ Jobs[2].error = None
    /\ Len(Warnings) = 1

\* C5: an uncommented, non-empty, non-env-var line on which extraction fails
\* (its first token is no alias and it has fewer than 5 tokens) adds no job
\* and exactly one warning "Line N: unrecognised format, skipped".
C5_UnrecognisedWarned ==
    Parsed =>
        \A i \in DOMAIN Lines :
            IsUncommentedLine(Lines[i]) =>
                LET text == ExtractionText(Lines[i])
                    fails == _try_parse_cron_line(text) = None
                IN  /\ fails <=> (~IsAliasToken(Tokens(text)[1])
                                    /\ Len(Tokens(text)) < 5)
                    /\ fails =>
                          /\ JobsOn(i) = {}
                          /\ Cardinality(WarningsOn(i)) = 1
                          /\ \A k \in WarningsOn(i) :
                                Warnings[k] =
                                    <<"L", "i", "n", "e", " ">> \o str(i)
                                    \o <<":", " ", "u", "n", "r", "e", "c", "o",
                                         "g", "n", "i", "s", "e", "d", " ", "f",
                                         "o", "r", "m", "a", "t", ",", " ", "s",
                                         "k", "i", "p", "p", "e", "d">>

\* Line 2 is a four-token line: one warning about line 2 and no job for it.
C5_Witness ==
    /\ Parsed
    /\ Len(Lines) = 2
    /\ IsUncommentedLine(Lines[2])
    /\ Len(Tokens(strip(Lines[2]))) = 4
    /\ WarningsOn(2) # {}
    /\ JobsOn(2) = {}

\* What follows the first token of a text, trimmed.
AfterFirstToken(text) ==
    strip(SubSeq(text, Len(Tokens(text)[1]) + 1, Len(text)))

\* C6: extraction treats a line as an alias job exactly when its first token
\* equals one of the 8 aliases, letter case ignored; the schedule is then
\* the lower-cased alias, the command the remainder (possibly empty) and
\* the error None.  A first token that is an alias name without "@" is
\* never treated as an alias.
C6_AliasExtraction ==
    Parsed =>
        \A i \in DOMAIN Lines :
            ReachesExtraction(Lines[i]) /\ ExtractionText(Lines[i]) # <<>> =>
                LET text == ExtractionText(Lines[i])
                    first == Tokens(text)[1]
                IN  IF IsAliasToken(first)
                    THEN /\ _try_parse_cron_line(text)
                              = <<lower(first), AfterFirstToken(text)>>
                         /\ Cardinality(JobsOn(i)) = 1
                         /\ \A k \in JobsOn(i) :
                               /\ Jobs[k].schedule = lower(first)
                               /\ Jobs[k].schedule \in _ALIASES
                               /\ Jobs[k].command = AfterFirstToken(text)
                               /\ Jobs[k].error = None
                    ELSE \A k \in JobsOn(i) : Jobs[k].schedule \notin _ALIASES

\* "@Daily a" gave a job with schedule "@daily", and a line starting with
\* the bare name "daily" gave none.
C6_Witness ==
    /\ Parsed
    /\ \E k \in DOMAIN Jobs :
          /\ Jobs[k].schedule = <<"@", "d", "a", "i", "l", "y">>
          /\ Tokens(ExtractionText(Jobs[k].raw_line))[1]
                = <<"@", "D", "a", "i", "l", "y">>
    /\ \E i \in DOMAIN Lines :
          /\ ReachesExtraction(Lines[i])
          /\ ExtractionText(Lines[i]) # <<>>
          /\ Tokens(ExtractionText(Lines[i]))[1] = <<"d", "a", "i", "l", "y">>
          /\ JobsOn(i) = {}

\* The text from the start of its n-th token to its end.
FromToken(text, n) == SubSeq(text, Nth(TokenStarts(text), n), Len(text))

\* C7: for a non-alias line with at least 5 tokens the schedule is the first
\* 5 tokens joined by single spaces, and the command is everything after the
\* 5th token as written, or the empty string without a 6th token.
C7_FiveFieldExtraction ==
    Parsed =>
        \A i \in DOMAIN Lines :
            ReachesExtraction(Lines[i]) /\ ExtractionText(Lines[i]) # <<>> =>
                LET text == ExtractionText(Lines[i])
                    toks == Tokens(text)
                    schedule == toks[1] \o <<" ">> \o toks[2] \o <<" ">> \o toks[3]
                                \o <<" ">> \o toks[4] \o <<" ">> \o toks[5]
                    command == IF Len(toks) = 5 THEN <<>> ELSE FromToken(text, 6)
                IN  (~IsAliasToken(toks[1]) /\ Len(toks) >= 5) =>
                        /\ _try_parse_cron_line(text) = <<schedule, command>>
                        /\ IsUncommentedLine(Lines[i]) => JobsOn(i) # {}
                        /\ \A k \in JobsOn(i) :
                              /\ Jobs[k].schedule = schedule
                              /\ Jobs[k].command = command

\* A job whose fields were separated by more than one character and whose
\* command holds whitespace, and a job without a command.
C7_Witness ==
    /\ Parsed
    /\ \E k \in DOMAIN Jobs :
          /\ Len(Jobs[k].raw_line) > Len(Jobs[k].schedule) + Len(Jobs[k].command) + 2
          /\ \E c \in DOMAIN Jobs[k].command : IsSpace(Jobs[k].command[c])
    /\ \E k \in DOMAIN Jobs :
          /\ Jobs[k].command = <<>>
          /\ Jobs[k].schedule \notin _ALIASES

\* A line that is skipped silently: blank, an environment assignment, or a
\* comment on which extraction fails.
IsSilentLine(line) ==
    \/ IsBlank(line)
    \/ _is_env_var(strip(line))
    \/ IsCommentLine(line) /\ _try_parse_cron_line(ExtractionText(line)) = None

\* C8: blank lines, environment assignments and comment lines on which
\* extraction fails add neither a job nor a warning; a text made only of
\* such lines parses to no jobs and no warnings.
C8_SilentLines ==
    Parsed =>
        /\ \A i \in DOMAIN Lines :
              IsSilentLine(Lines[i]) => JobsOn(i) = {} /\ WarningsOn(i) = {}
        /\ (\A i \in DOMAIN Lines : IsSilentLine(Lines[i])) =>
              Jobs = <<>> /\ Warnings = <<>>

\* A text of an environment assignment and a pure comment.
C8_Witness ==
    /\ Parsed
    /\ Len(Lines) = 2
    /\ _is_env_var(strip(Lines[1]))
    /\ IsCommentLine(Lines[2])
    /\ Jobs = <<>>
    /\ Warnings = <<>>

(***************************************************************************)
(* Properties of the occurrence generator and the heatmap aggregator,      *)
(* under SpecOcc.                                                          *)
(***************************************************************************)
ResolvedFrom == _ensure_utc(request.from_dt, _default_window(request.now)[1])

ResolvedTo == _ensure_utc(request.to_dt, _default_window(request.now)[2])

\* The job an occurrence item was generated for.
ItemOfJob(item, job) ==
    /\ item.schedule = job.schedule
    /\ item.command = job.command
    /\ item.enabled = job.enabled

\* C9: every ParsedJob carries a description field, None when no comment
\* precedes its line (as for a job on the first line), and every occurrence
\* of a request is returned and carries the description of its job.
C9_DescriptionCarried ==
    /\ Parsed =>
          \A k \in DOMAIN Jobs :
              /\ HasAttr(Jobs[k], "description")
              /\ Jobs[k].line_number = 1 => Jobs[k].description = None
    /\ pc = "occurrences" =>
          /\ ~response.raised
          /\ \A i \in DOMAIN response.items :
                \E k \in DOMAIN Jobs :
                    /\ ItemOfJob(response.items[i], Jobs[k])
                    /\ HasAttr(Jobs[k], "description")
                    /\ response.items[i].description = Jobs[k].description

\* The eligibility rule as the specification states it.
Eligible(job, include_disabled) ==
    /\ job.enabled \/ include_disabled
    /\ job.error = None
    /\ job.schedule # Reboot

\* The (job position, instant) pairs of the jobs that are eligible and not
\* removed by the noisy filter, for the request of the current state.
Contributions ==
    UNION {{<<k, dt>> : dt \in _iter_schedule(Jobs[k].schedule, ResolvedFrom, ResolvedTo)} :
             k \in {k \in DOMAIN Jobs :
                      /\ Eligible(Jobs[k], request.include_disabled)
                      /\ ~(request.hide_noisy /\ _is_noisy(Jobs[k].schedule))}}

\* The count the heatmap reports for a key: 0 when it has no cell for it.
CountAt(key) ==
    IF \E r \in DOMAIN response.cells :
          <<response.cells[r].hour, response.cells[r].day>> = key
    THEN LET r == CHOOSE r \in DOMAIN response.cells :
                     <<response.cells[r].hour, response.cells[r].day>> = key
         IN  response.cells[r].count
    ELSE 0

\* The heatmap counts exactly the contributions of the eligible jobs.
HeatmapCountsEligible ==
    pc = "heatmap" =>
        /\ ~response.raised
        /\ LET contributions == Contributions
           IN  \A key \in (0..23) \X (0..6) :
                  CountAt(key) = Cardinality({c \in contributions : CellKey(c[2]) = key})

\* The occurrence list holds exactly the contributions of the eligible jobs,
\* up to the limit, and only enabled jobs when include_disabled is not set.
OccurrencesOfEligibleOnly ==
    pc = "occurrences" =>
        /\ ~response.raised
        /\ LET contributions == Contributions
           IN  /\ Len(response.items) = Min({request.limit, Cardinality(contributions)})
               /\ \A i \in DOMAIN response.items :
                     \E c \in contributions :
                         /\ ItemOfJob(response.items[i], Jobs[c[1]])
                         /\ response.items[i].at = c[2]
        /\ ~request.include_disabled =>
              \A i \in DOMAIN response.items : response.items[i].enabled

\* C10: in both outputs a job contributes if and only if it is eligible
\* ((enabled or include_disabled), no error, not @reboot) and not removed by
\* the noisy filter; without include_disabled every occurrence is enabled.
C10_EligibleContribute == HeatmapCountsEligible /\ OccurrencesOfEligibleOnly

\* The contributions in the order of the stable merge: ascending by instant,
\* contributions with the same instant in the order of their jobs in the
\* input list.
MergeBefore(c, d) == c[2] < d[2] \/ (c[2] = d[2] /\ c[1] < d[1])

MergedContributions(contributions) ==
    [i \in 1..Cardinality(contributions) |->
        CHOOSE c \in contributions :
            Cardinality({d \in contributions : MergeBefore(d, c)}) = i - 1]

\* C11: occurrences_for_window returns its list sorted ascending by
\* timestamp, occurrences of different jobs with the same timestamp in the
\* order of their jobs in the input list.
C11_SortedStableMerge ==
    pc = "occurrences" =>
        /\ ~response.raised
        /\ \A i, j \in DOMAIN response.items :
              i < j => response.items[i].at <= response.items[j].at
        /\ LET merged == MergedContributions(Contributions)
           IN  \A i \in DOMAIN response.items :
                  /\ i <= Len(merged)
                  /\ ItemOfJob(response.items[i], Jobs[merged[i][1]])
                  /\ response.items[i].at = merged[i][2]

\* C12: occurrences_for_window returns exactly min(limit, N) occurrences, N
\* the number of occurrences of all remaining jobs, and they are the first
\* ones of the merged sorted list: the earliest of the whole window.
C12_EarliestUpToLimit ==
    pc = "occurrences" =>
        /\ ~response.raised
        /\ LET contributions == Contributions
           IN  /\ Len(response.items)
                     = Min({request.limit, Cardinality(contributions)})
               /\ \A i \in DOMAIN response.items :
                     /\ \E c \in contributions : response.items[i].at = c[2]
                     /\ Cardinality({c \in contributions :
                                       c[2] < response.items[i].at}) < i

\* Whether the instant t is a match of the (valid) schedule.
MatchesAt(schedule, t) ==
    /\ t % Minute = 0
    /\ MatchingMinutes(schedule, t \div Minute, t \div Minute) # {}

\* C13: every occurrence generated for a window lies in
\* [resolvedFrom, resolvedTo], whatever the seconds and the sub-second part
\* of its ends, and a match exactly at resolvedFrom or at resolvedTo is
\* generated.
C13_WithinWindow ==
    pc \in {"occurrences", "heatmap"} =>
        LET contributions == Contributions
        IN  /\ \A c \in contributions :
                  ResolvedFrom <= c[2] /\ c[2] <= ResolvedTo
            /\ \A k \in DOMAIN Jobs, t \in {ResolvedFrom, ResolvedTo} :
                  (/\ ResolvedFrom <= ResolvedTo
                   /\ Eligible(Jobs[k], request.include_disabled)
                   /\ ~(request.hide_noisy /\ _is_noisy(Jobs[k].schedule))
                   /\ is_valid(Jobs[k].schedule)
                   /\ MatchesAt(Jobs[k].schedule, t))
                  => <<k, t>> \in contributions

EveryMinuteSchedule == JoinWith(<<Star, Star, Star, Star, Star>>, <<" ">>)

HourlySchedule == JoinWith(<< <<"0">>, Star, Star, Star, Star>>, <<" ">>)

\* The whole multiples of step in [resolvedFrom, resolvedTo].
WholeIn(step) == {t \in ResolvedFrom..ResolvedTo : t % step = 0}

\* The state after occurrences_for_window on one enabled job with that
\* schedule, nothing hidden, and a limit that does not truncate.
SingleJobCall(schedule, step) ==
    /\ pc = "occurrences"
    /\ Len(Jobs) = 1
    /\ Jobs[1].schedule = schedule
    /\ Jobs[1].enabled
    /\ ~request.hide_noisy
    /\ Cardinality(WholeIn(step)) <= request.limit

ExactlyAt(instants) ==
    /\ ~response.raised
    /\ Len(response.items) = Cardinality(instants)
    /\ {response.items[i].at : i \in DOMAIN response.items} = instants

\* C14: for "* * * * *" occurrences_for_window returns exactly one occurrence
\* per whole minute of the window and nothing else, and for "0 * * * *"
\* exactly one per whole hour of the window.
C14_OnePerMinuteOnePerHour ==
    /\ SingleJobCall(EveryMinuteSchedule, Minute) => ExactlyAt(WholeIn(Minute))
    /\ SingleJobCall(HourlySchedule, Hour) => ExactlyAt(WholeIn(Hour))

\* The distinct noisy schedule strings among the eligible jobs of the
\* request.
EligibleNoisySchedules ==
    {Jobs[k].schedule :
        k \in {k \in DOMAIN Jobs : /\ Eligible(Jobs[k], request.include_disabled)
                                   /\ _is_noisy(Jobs[k].schedule)}}

\* The (job position, instant) pairs of the eligible jobs whose schedule is
\* not noisy.
QuietContributions ==
    UNION {{<<k, dt>> : dt \in _iter_schedule(Jobs[k].schedule, ResolvedFrom, ResolvedTo)} :
             k \in {k \in DOMAIN Jobs :
                      /\ Eligible(Jobs[k], request.include_disabled)
                      /\ ~_is_noisy(Jobs[k].schedule)}}

\* filtered_noisy_count counts distinct noisy schedules, and is 0 without
\* hide_noisy.
NoisyCountReported ==
    /\ ~response.raised
    /\ response.filtered_noisy_count
          = IF request.hide_noisy THEN Cardinality(EligibleNoisySchedules) ELSE 0

\* With hide_noisy the heatmap counts the quiet jobs' occurrences and no
\* others.
HeatmapHidesNoisy ==
    (pc = "heatmap" /\ request.hide_noisy) =>
        LET quiet == QuietContributions
        IN  \A key \in (0..23) \X (0..6) :
               CountAt(key) = Cardinality({c \in quiet : CellKey(c[2]) = key})

\* With hide_noisy the occurrences are those of the quiet jobs, all of them
\* up to the limit, and none of a noisy schedule.
OccurrencesHideNoisy ==
    (pc = "occurrences" /\ request.hide_noisy) =>
        LET quiet == QuietContributions
        IN  /\ ~response.raised
            /\ Len(response.items) = Min({request.limit, Cardinality(quiet)})
            /\ \A i \in DOMAIN response.items :
                  /\ ~_is_noisy(response.items[i].schedule)
                  /\ \E c \in quiet : /\ ItemOfJob(response.items[i], Jobs[c[1]])
                                      /\ response.items[i].at = c[2]

\* C15: with hide_noisy every eligible job with a noisy schedule is removed
\* before the limit and the other jobs are unaffected, in both outputs;
\* filtered_noisy_count is the number of distinct noisy schedules among the
\* eligible jobs, and 0 without hide_noisy.
C15_NoisyFilter ==
    pc \in {"occurrences", "heatmap"} =>
        /\ NoisyCountReported
        /\ HeatmapHidesNoisy
        /\ OccurrencesHideNoisy

(***************************************************************************)
(* _is_noisy as a function of the schedule alone.                          *)
(***************************************************************************)
MinuteFields ==
    { <<"0">>, <<"*">>, <<"*", "/", "3", "0">>, <<"*", "/", "1", "5">>,
      <<"0", ",", "3", "0">> }

HourFields ==
    { <<"*">>, <<"0">>, <<"*", "/", "5">>, <<"*", "/", "4">>, <<"*", "/", "6">>,
      <<"*", "/", "1", "2">>, <<"0", "-", "4">>, <<"0", "-", "5">>,
      <<"1", "-", "5">>, <<"1", "-", "6">> }

WeekdayFields == { <<"*">>, <<"1">> }

\* Schedules that restrict no date field but the day of week, so that their
\* days repeat every week.
NoisyMenu ==
    {JoinWith(<<mi, h, Star, Star, w>>, <<" ">>) :
        mi \in MinuteFields, h \in HourFields, w \in WeekdayFields}

InitNoisy ==
    /\ pc = "schedule"
    /\ raw_text = <<>>
    /\ result = NoResult
    /\ request \in NoisyMenu
    /\ response = None
    /\ NoRepository

CallIsNoisy ==
    /\ pc = "schedule"
    /\ response' = _is_noisy(request)
    /\ pc' = "classified"
    /\ UNCHANGED <<raw_text, result, request, repository>>

NextNoisy == CallIsNoisy

SpecNoisy == InitNoisy /\ [][NextNoisy]_vars

\* The number of times the schedule fires on day d.
FiresOn(schedule, d) ==
    Cardinality(MatchingMinutes(schedule, d * MinutesPerDay,
                                d * MinutesPerDay + MinutesPerDay - 1))

\* The days of one week, which stand for every day of a schedule of the menu.
WeekDays == 0..6

\* The matches in the reference window.
ReferenceCount(schedule) ==
    Cardinality(MatchingMinutes(schedule, _NOISY_TEST_FROM \div Minute,
                                _NOISY_TEST_TO \div Minute))

\* C16: _is_noisy is TRUE exactly when the matches in the 2-day reference
\* window, divided by 2, exceed 5; a schedule that fires 5 times or fewer on
\* every day is not noisy.
C16_NoisyAboveFivePerDay ==
    pc = "classified" =>
        /\ response = (ReferenceCount(request) > 2 * _NOISY_THRESHOLD)
        /\ (\A d \in WeekDays : FiresOn(request, d) <= _NOISY_THRESHOLD)
              => ~response

(***************************************************************************)
(* The heatmap against the occurrence list, under SpecOcc.                 *)
(***************************************************************************)
RECURSIVE SumCounts(_)
SumCounts(cells) ==
    IF Len(cells) = 0 THEN 0 ELSE cells[1].count + SumCounts(Tail(cells))

\* What occurrences_for_window gives for the jobs, window and flags of the
\* heatmap request of the current state.
SameRequestOccurrences ==
    occurrences_for_window(Jobs, request.from_dt, request.to_dt, request.limit,
                           request.include_disabled, request.hide_noisy,
                           request.now)

\* C17: for the same jobs, window and flags, and a limit that does not
\* truncate, the heatmap counts sum to the length of the occurrence list, and
\* each cell counts the occurrences with its (hour, weekday).
C17_HeatmapMatchesOccurrences ==
    pc = "heatmap" =>
        LET occ == SameRequestOccurrences
        IN  /\ ~occ.raised
            /\ Len(occ.items) < request.limit =>
                  /\ SumCounts(response.cells) = Len(occ.items)
                  /\ \A r \in DOMAIN response.cells :
                        response.cells[r].count
                           = Cardinality({i \in DOMAIN occ.items :
                                CellKey(occ.items[i].at)
                                   = <<response.cells[r].hour, response.cells[r].day>>})

CellKeyOf(cell) == <<cell.hour, cell.day>>

\* C18: the cells of heatmap_for_window have pairwise distinct (hour, day)
\* keys in ascending order, 0 <= hour <= 23, 0 <= day <= 6 and count > 0;
\* max_count is the largest count, and 0 exactly when there is no cell.
C18_HeatmapCells ==
    pc = "heatmap" =>
        /\ \A r, q \in DOMAIN response.cells :
              r < q => PairBefore(CellKeyOf(response.cells[r]),
                                  CellKeyOf(response.cells[q]))
        /\ \A r \in DOMAIN response.cells :
              /\ response.cells[r].hour \in 0..23
              /\ response.cells[r].day \in 0..6
              /\ response.cells[r].count > 0
              /\ response.cells[r].count <= response.max_count
        /\ response.cells # <<>> =>
              \E r \in DOMAIN response.cells :
                  response.cells[r].count = response.max_count
        /\ response.max_count = 0 <=> response.cells = <<>>

\* A heatmap of two cells with different counts.
C18_Witness ==
    /\ pc = "heatmap"
    /\ Len(response.cells) = 2
    /\ response.cells[1].count > response.cells[2].count

(***************************************************************************)
(* The resolution of the window at the head of occurrences_for_window and  *)
(* heatmap_for_window.                                                     *)
(***************************************************************************)
\* (from_dt, to_dt) after the defaults and the conversion to UTC.
ResolvedWindow(from_dt, to_dt, now) ==
    <<_ensure_utc(from_dt, _default_window(now)[1]),
      _ensure_utc(to_dt, _default_window(now)[2])>>

\* Absent; naive; at UTC+1, UTC-1 and UTC+0.
WindowEnds ==
    { <<>>, Naive(0), Naive(Hour + 90 * Second + 1), Zoned(Hour, Hour),
      Zoned(Day, -Hour), Zoned(-Minute, 0) }

WindowNows == {1, 45 * Day + 7 * Hour + 1}

InitWindow ==
    /\ pc = "window"
    /\ raw_text = <<>>
    /\ result = NoResult
    /\ request \in [from_dt : WindowEnds, to_dt : WindowEnds, now : WindowNows]
    /\ response = None
    /\ NoRepository

ResolveWindow ==
    /\ pc = "window"
    /\ response' = ResolvedWindow(request.from_dt, request.to_dt, request.now)
    /\ pc' = "resolved"
    /\ UNCHANGED <<raw_text, result, request, repository>>

NextWindow == ResolveWindow

SpecWindow == InitWindow /\ [][NextWindow]_vars

\* The instant a given datetime denotes, in ticks since the epoch in UTC: a
\* wall clock reading at an offset east of UTC is that much earlier in UTC,
\* and a naive reading counts as UTC.
InstantOf(dt) == IF dt.tz = <<>> THEN dt.wall ELSE dt.wall - dt.tz[1]

ThirtyDays == 30 * 24 * 60 * 60 * TicksPerSecond

\* C19: with neither end given the window starts at the current instant and
\* is exactly 30 days long; a given naive end is taken as UTC unchanged and a
\* given zoned end is the same instant in UTC.
C19_ResolvedWindow ==
    pc = "resolved" =>
        /\ (request.from_dt = <<>> /\ request.to_dt = <<>>) =>
              /\ response[1] = request.now
              /\ response[2] - response[1] = ThirtyDays
        /\ request.from_dt # <<>> => response[1] = InstantOf(request.from_dt[1])
        /\ request.to_dt # <<>> => response[2] = InstantOf(request.to_dt[1])

C19_Witness ==
    /\ pc = "resolved"
    /\ request.from_dt = <<>>
    /\ request.to_dt = <<>>
    /\ response[1] = request.now

(***************************************************************************)
(* The repository of stored crontabs (app/db/repository.py) behind the     *)
(* CRUD endpoints (app/api/crontabs.py).                                   *)
(*                                                                         *)
(* Every request runs on a connection of its own (get_db), so that calls   *)
(* interleave at their awaits: the code between two awaits is one step.    *)
(* A statement and the commit that follows it are one step, the one at     *)
(* which the other connections see the change.  A row is a record of its   *)
(* columns and the table is a function from the primary key to the row.    *)
(***************************************************************************)
\* json.dumps of a list of str.
json_escape(c) == IF c \in {"\"", "\\"} THEN <<"\\", c>> ELSE <<c>>

RECURSIVE json_string(_)
json_string(t) ==
    IF Len(t) = 0 THEN <<>> ELSE json_escape(Head(t)) \o json_string(Tail(t))

json_dumps(tags) ==
    <<"[">>
    \o JoinWith([i \in DOMAIN tags |-> <<"\"">> \o json_string(tags[i]) \o <<"\"">>],
                <<",", " ">>)
    \o <<"]">>

\* An optional row is <<>> for None and <<row>> for a row.
NoRow == <<>>

\* SELECT * FROM crontabs WHERE id = ?
get_by_id(id) == IF id \in DOMAIN crontabs THEN <<crontabs[id]>> ELSE NoRow

\* INSERT INTO crontabs (id, name, raw_text, tags, created_at, updated_at)
INSERT(table, id, data, now) ==
    table @@ (id :> [id |-> id, name |-> data.name, raw_text |-> data.raw_text,
                     tags |-> json_dumps(data.tags), created_at |-> now,
                     updated_at |-> now])

\* The dict updates of update before updated_at is added: one entry for
\* each field of the payload that is not None.
UpdatableColumns == {"name", "raw_text", "tags"}

\* Every field of the payload, None included.
Updates_AllFields(data) ==
    [c \in UpdatableColumns |->
        IF c = "tags" /\ data.tags # None THEN json_dumps(data.tags) ELSE data[c]]

Updates(data) ==
    [c \in {k \in UpdatableColumns : data[k] # None} |->
        IF c = "tags" THEN json_dumps(data.tags) ELSE data[c]]

\* A statement that also inserts the columns of updates under id when no
\* row has it.
UPDATE_Upsert(table, updates, id) ==
    IF id \in DOMAIN table
    THEN [table EXCEPT ![id] = [c \in DOMAIN table[id] |->
                                   IF c \in DOMAIN updates THEN updates[c]
                                   ELSE table[id][c]]]
    ELSE table @@ (id :> (updates @@ ("id" :> id)))

\* UPDATE crontabs SET <the columns of updates> WHERE id = ?
UPDATE(table, updates, id) ==
    [k \in DOMAIN table |->
        IF k = id
        THEN [c \in DOMAIN table[k] |->
                 IF c \in DOMAIN updates THEN updates[c] ELSE table[k][c]]
        ELSE table[k]]

\* A statement that removes no row.
DELETE_Nothing(table, id) == table

\* DELETE FROM crontabs WHERE id = ?
DELETE(table, id) == [k \in DOMAIN table \ {id} |-> table[k]]

HTTP_200_OK == 200
HTTP_201_CREATED == 201
HTTP_204_NO_CONTENT == 204
HTTP_404_NOT_FOUND == 404
HTTP_500_INTERNAL_SERVER_ERROR == 500

Reply(code, row) == [status |-> code, body |-> row]

\* The requests in flight; each slot carries one request.
Slots == {"r1", "r2", "r3"}

MaxClock == 1

\* The ids requests ask for: the first two uuid4 hands out.
TargetIds == {1, 2}

\* The texts stored: one line each.
DailyText == TextOf(<<LineOf(Plain, MidnightBody)>>)

EveryMinuteText == TextOf(<<LineOf(Plain, EveryMinuteBody)>>)

CreatePayloads ==
    { [name |-> <<"o", "l", "d">>, raw_text |-> DailyText,
       tags |-> << <<"a">>, <<"b">> >>] }

UpdatePayloads ==
    [name : {None, <<"n", "e", "w">>},
     raw_text : {None, EveryMinuteText},
     tags : {None, << <<"c">> >>}]

NoLocals == <<>>

NoRequest == [op |-> "none"]

InitRepo ==
    /\ pc = [s \in Slots |-> "idle"]
    /\ raw_text = <<>>
    /\ result = NoResult
    /\ request = [s \in Slots |-> NoRequest]
    /\ response = [s \in Slots |-> None]
    /\ crontabs = <<>>
    /\ clock = 0
    /\ uuids = 0
    /\ locals = [s \in Slots |-> NoLocals]

\* Time passes.
Tick ==
    /\ clock < MaxClock
    /\ clock' = clock + 1
    /\ UNCHANGED <<pc, raw_text, result, request, response, crontabs, uuids,
                   locals>>

Finish(s, reply) ==
    /\ response' = [response EXCEPT ![s] = reply]
    /\ pc' = [pc EXCEPT ![s] = "done"]

\* POST /api/crontabs: create up to its INSERT.
ReceiveCreate(s) ==
    /\ pc[s] = "idle"
    /\ \E data \in CreatePayloads :
          request' = [request EXCEPT ![s] = [op |-> "create", data |-> data]]
    /\ uuids' = uuids + 1
    /\ locals' = [locals EXCEPT ![s] = [id |-> uuids + 1, now |-> clock]]
    /\ pc' = [pc EXCEPT ![s] = "create_insert"]
    /\ UNCHANGED <<raw_text, result, response, crontabs, clock>>

CreateInsert(s) ==
    /\ pc[s] = "create_insert"
    /\ crontabs' = INSERT(crontabs, locals[s].id, request[s].data, locals[s].now)
    /\ pc' = [pc EXCEPT ![s] = "create_get"]
    /\ UNCHANGED <<raw_text, result, request, response, clock, uuids, locals>>

\* get_by_id at the end of create, and CrontabResponse.from_row, which
\* subscripts what it is given.
CreateGet(s) ==
    /\ pc[s] = "create_get"
    /\ LET row == get_by_id(locals[s].id)
       IN  Finish(s, IF row = NoRow
                     THEN Reply(HTTP_500_INTERNAL_SERVER_ERROR, NoRow)
                     ELSE Reply(HTTP_201_CREATED, row))
    /\ UNCHANGED <<raw_text, result, request, crontabs, clock, uuids, locals>>

\* PUT /api/crontabs/{id}
ReceiveUpdate(s) ==
    /\ pc[s] = "idle"
    /\ \E id \in TargetIds, data \in UpdatePayloads :
          request' = [request EXCEPT
                         ![s] = [op |-> "update", id |-> id, data |-> data]]
    /\ pc' = [pc EXCEPT ![s] = "update_get"]
    /\ UNCHANGED <<raw_text, result, response, repository>>

\* existing = await self.get_by_id(id), and the code up to the next await.
UpdateGet(s) ==
    /\ pc[s] = "update_get"
    /\ LET existing == get_by_id(request[s].id)
           updates == Updates(request[s].data)
       IN  IF existing = NoRow
           THEN /\ Finish(s, Reply(HTTP_404_NOT_FOUND, NoRow))
                /\ UNCHANGED locals
           ELSE IF DOMAIN updates = {}
           THEN /\ Finish(s, Reply(HTTP_200_OK, existing))
                /\ UNCHANGED locals
           ELSE /\ locals' = [locals EXCEPT
                                 ![s] = [existing |-> existing,
                                         updates |-> updates
                                                     @@ ("updated_at" :> clock)]]
                /\ pc' = [pc EXCEPT ![s] = "update_execute"]
                /\ UNCHANGED response
    /\ UNCHANGED <<raw_text, result, request, crontabs, clock, uuids>>

\* A write of the whole row as update read it, with the columns of updates
\* replaced.
UpdateExecute_WriteBack(s) ==
    /\ pc[s] = "update_execute"
    /\ crontabs' = IF request[s].id \in DOMAIN crontabs
                   THEN [crontabs EXCEPT
                            ![request[s].id] =
                                [c \in DOMAIN locals[s].existing[1] |->
                                    IF c \in DOMAIN locals[s].updates
                                    THEN locals[s].updates[c]
                                    ELSE locals[s].existing[1][c]]]
                   ELSE crontabs
    /\ pc' = [pc EXCEPT ![s] = "update_reget"]
    /\ UNCHANGED <<raw_text, result, request, response, clock, uuids, locals>>

\* The UPDATE and its commit.
UpdateExecute(s) ==
    /\ pc[s] = "update_execute"
    /\ crontabs' = UPDATE(crontabs, locals[s].updates, request[s].id)
    /\ pc' = [pc EXCEPT ![s] = "update_reget"]
    /\ UNCHANGED <<raw_text, result, request, response, clock, uuids, locals>>

\* return await self.get_by_id(id), and the endpoint's test of the row.
UpdateReget(s) ==
    /\ pc[s] = "update_reget"
    /\ LET row == get_by_id(request[s].id)
       IN  Finish(s, IF row = NoRow
                     THEN Reply(HTTP_404_NOT_FOUND, NoRow)
                     ELSE Reply(HTTP_200_OK, row))
    /\ UNCHANGED <<raw_text, result, request, crontabs, clock, uuids, locals>>

\* DELETE /api/crontabs/{id}
ReceiveDelete(s) ==
    /\ pc[s] = "idle"
    /\ \E id \in TargetIds :
          request' = [request EXCEPT ![s] = [op |-> "delete", id |-> id]]
    /\ pc' = [pc EXCEPT ![s] = "delete_execute"]
    /\ UNCHANGED <<raw_text, result, response, repository>>

\* The DELETE and its commit; rowcount is 1 when the row was there.
DeleteExecute(s) ==
    /\ pc[s] = "delete_execute"
    /\ crontabs' = DELETE(crontabs, request[s].id)
    /\ Finish(s, IF request[s].id \in DOMAIN crontabs
                 THEN Reply(HTTP_204_NO_CONTENT, NoRow)
                 ELSE Reply(HTTP_404_NOT_FOUND, NoRow))
    /\ UNCHANGED <<raw_text, result, request, clock, uuids, locals>>

\* GET /api/crontabs/{id}
ReceiveGet(s) ==
    /\ pc[s] = "idle"
    /\ \E id \in TargetIds :
          request' = [request EXCEPT ![s] = [op |-> "get", id |-> id]]
    /\ pc' = [pc EXCEPT ![s] = "get"]
    /\ UNCHANGED <<raw_text, result, response, repository>>

GetCrontab(s) ==
    /\ pc[s] = "get"
    /\ LET row == get_by_id(request[s].id)
       IN  Finish(s, IF row = NoRow
                     THEN Reply(HTTP_404_NOT_FOUND, NoRow)
                     ELSE Reply(HTTP_200_OK, row))
    /\ UNCHANGED <<raw_text, result, request, crontabs, clock, uuids, locals>>

\* json.loads of what json.dumps wrote for a list of str.
RECURSIVE json_unescape(_)
json_unescape(t) ==
    IF Len(t) = 0 THEN <<>>
    ELSE IF Head(t) = "\\" THEN <<t[2]>> \o json_unescape(SubSeq(t, 3, Len(t)))
    ELSE <<Head(t)>> \o json_unescape(Tail(t))

\* The index of the quote that closes the string opened before index i.
RECURSIVE ClosingQuote(_, _)
ClosingQuote(t, i) ==
    IF t[i] = "\\" THEN ClosingQuote(t, i + 2)
    ELSE IF t[i] = "\"" THEN i
    ELSE ClosingQuote(t, i + 1)

RECURSIVE json_items(_)
json_items_from(t, close) ==
    <<json_unescape(SubSeq(t, 2, close - 1))>>
    \o (IF close = Len(t) THEN <<>> ELSE json_items(SubSeq(t, close + 3, Len(t))))

json_items(t) == IF Len(t) = 0 THEN <<>> ELSE json_items_from(t, ClosingQuote(t, 2))

json_loads(t) == json_items(SubSeq(t, 2, Len(t) - 1))

\* CrontabSummary.from_row(row, job_count=len(result.jobs))
CrontabSummary(row) ==
    [id |-> row.id, name |-> row.name, tags |-> json_loads(row.tags),
     job_count |-> Len(parse_crontab(row.raw_text).jobs),
     created_at |-> row.created_at, updated_at |-> row.updated_at]

\* SELECT * FROM crontabs ORDER BY created_at DESC: the orders the statement
\* allows, rows of equal created_at in either order.
OrderedIds(table, n) ==
    { ids \in [1..n -> DOMAIN table] :
        /\ \A i, j \in 1..n : i < j => ids[i] # ids[j]
        /\ \A i, j \in 1..n :
              i < j => table[ids[i]].created_at >= table[ids[j]].created_at }

get_all(table) ==
    { [i \in DOMAIN ids |-> table[ids[i]]] :
        ids \in OrderedIds(table, Cardinality(DOMAIN table)) }

\* GET /api/crontabs
ReceiveList(s) ==
    /\ pc[s] = "idle"
    /\ request' = [request EXCEPT ![s] = [op |-> "list"]]
    /\ pc' = [pc EXCEPT ![s] = "list"]
    /\ UNCHANGED <<raw_text, result, response, repository>>

ListCrontabs(s) ==
    /\ pc[s] = "list"
    /\ \E rows \in get_all(crontabs) :
          Finish(s, Reply(HTTP_200_OK,
                          [i \in DOMAIN rows |-> CrontabSummary(rows[i])]))
    /\ UNCHANGED <<raw_text, result, request, crontabs, clock, uuids, locals>>

\* POST /api/crontabs/{id}/occurrences, /aggregate/timeline and
\* /aggregate/heatmap
AggregateEndpoints == {"occurrences", "timeline", "heatmap"}

ReceiveAggregate(s) ==
    /\ pc[s] = "idle"
    /\ \E id \in TargetIds, endpoint \in AggregateEndpoints :
          request' = [request EXCEPT ![s] = [op |-> endpoint, id |-> id]]
    /\ pc' = [pc EXCEPT ![s] = "aggregate"]
    /\ UNCHANGED <<raw_text, result, response, repository>>

\* _get_or_404, then the arguments of the call: payload.hide_noisy is no
\* field of OccurrenceRequest or HeatmapRequest, and reading it raises
\* AttributeError.
Aggregate(s) ==
    /\ pc[s] = "aggregate"
    /\ LET row == get_by_id(request[s].id)
       IN  Finish(s, IF row = NoRow
                     THEN Reply(HTTP_404_NOT_FOUND, NoRow)
                     ELSE Reply(HTTP_500_INTERNAL_SERVER_ERROR, NoRow))
    /\ UNCHANGED <<raw_text, result, request, crontabs, clock, uuids, locals>>

NextRepo ==
    \/ Tick
    \/ \E s \in Slots : ReceiveCreate(s)
    \/ \E s \in Slots : CreateInsert(s)
    \/ \E s \in Slots : CreateGet(s)
    \/ \E s \in Slots : ReceiveUpdate(s)
    \/ \E s \in Slots : UpdateGet(s)
    \/ \E s \in Slots : UpdateExecute(s)
    \/ \E s \in Slots : UpdateReget(s)
    \/ \E s \in Slots : ReceiveDelete(s)
    \/ \E s \in Slots : DeleteExecute(s)
    \/ \E s \in Slots : ReceiveGet(s)
    \/ \E s \in Slots : GetCrontab(s)
    \/ \E s \in Slots : ReceiveList(s)
    \/ \E s \in Slots : ListCrontabs(s)
    \/ \E s \in Slots : ReceiveAggregate(s)
    \/ \E s \in Slots : Aggregate(s)

SpecRepo == InitRepo /\ [][NextRepo]_vars

\* The fields of a payload that are not None.
Supplied(data) == {c \in UpdatableColumns : data[c] # None}

\* Slot s carries an update and takes a step of it.
UpdateStep(s) ==
    /\ request[s].op = "update"
    /\ pc'[s] # pc[s]

\* The row id of the table before and after the step differ at most in the
\* columns of changed.
SameExcept(id, changed) ==
    /\ id \in DOMAIN crontabs'
    /\ \A c \in DOMAIN crontabs[id] \ changed : crontabs'[id][c] = crontabs[id][c]

\* C20: a step of an update leaves every other row as it was and changes,
\* in the row it names, only the supplied fields and updated_at, so that the
\* unsupplied fields, id and created_at keep their values; an update that
\* supplies no field changes nothing, updated_at included, and returns the
\* row as stored.
C20_UpdateFrame ==
    [][\A s \in Slots :
          UpdateStep(s) =>
             /\ \A id \in DOMAIN crontabs :
                   SameExcept(id, IF id = request[s].id
                                  THEN Supplied(request[s].data)
                                       \cup {"updated_at"}
                                  ELSE {})
             /\ Supplied(request[s].data) = {} =>
                   /\ crontabs' = crontabs
                   /\ request[s].id \in DOMAIN crontabs =>
                         response'[s] = Reply(HTTP_200_OK,
                                              <<crontabs[request[s].id]>>)]_vars

\* An update of the name alone has been answered with the new name, the
\* text and tags of the creation, the same created_at and a later
\* updated_at.
C20_Witness ==
    \E s \in Slots :
        /\ pc[s] = "done"
        /\ request[s].op = "update"
        /\ Supplied(request[s].data) = {"name"}
        /\ response[s].status = HTTP_200_OK
        /\ response[s].body[1].name = request[s].data.name
        /\ response[s].body[1].raw_text = DailyText
        /\ response[s].body[1].tags = json_dumps(<< <<"a">>, <<"b">> >>)
        /\ response[s].body[1].created_at < response[s].body[1].updated_at

\* A delete of id has been answered with 204.
Deleted(id) ==
    \E d \in Slots :
        /\ pc[d] = "done"
        /\ request[d].op = "delete"
        /\ request[d].id = id
        /\ response[d].status = HTTP_204_NO_CONTENT

\* The requests that name a crontab by its id.
ByIdEndpoints == {"get", "update", "delete"} \cup AggregateEndpoints

\* Slot s is answered at this step.
Answered(s) == pc[s] # "done" /\ pc'[s] = "done"

\* C21: an id whose delete was answered with 204 is in the table no more;
\* every get, update, delete, occurrences, timeline or heatmap request for it
\* answered from then on is answered 404, and no list answered from then on
\* holds it; a step of a delete or of an update whose id is not in the table
\* leaves the table as it is and, where it answers, answers 404.
C21_DeletedIsNotFound ==
    /\ [](\A id \in TargetIds : Deleted(id) => id \notin DOMAIN crontabs)
    /\ [][\A s \in Slots :
            /\ (Answered(s) /\ request[s].op \in ByIdEndpoints
                   /\ Deleted(request[s].id)) =>
                  response'[s].status = HTTP_404_NOT_FOUND
            /\ (Answered(s) /\ request[s].op = "list") =>
                  \A i \in DOMAIN response'[s].body :
                      ~Deleted(response'[s].body[i].id)
            /\ (pc[s] # "idle" /\ pc'[s] # pc[s]
                   /\ request[s].op \in {"delete", "update"}
                   /\ request[s].id \notin DOMAIN crontabs) =>
                  /\ crontabs' = crontabs
                  /\ Answered(s) => response'[s].status = HTTP_404_NOT_FOUND]_vars

\* A crontab was created, its delete was answered 204, and a heatmap
\* request and a list were answered 404 and without it.
C21_Witness ==
    \E c, d, s \in Slots :
        /\ pc[c] = "done" /\ request[c].op = "create"
        /\ response[c].status = HTTP_201_CREATED
        /\ pc[d] = "done" /\ request[d].op = "delete"
        /\ request[d].id = response[c].body[1].id
        /\ response[d].status = HTTP_204_NO_CONTENT
        /\ pc[s] = "done" /\ request[s].op = "heatmap"
        /\ request[s].id = request[d].id
        /\ response[s].status = HTTP_404_NOT_FOUND

\* Slot s carries an update of id that supplied fields and was answered 200.
UpdatedBy(s, id) ==
    /\ pc[s] = "done"
    /\ request[s].op = "update"
    /\ request[s].id = id
    /\ Supplied(request[s].data) # {}
    /\ response[s].status = HTTP_200_OK

\* C26: when two updates of one crontab that supplied disjoint fields have
\* both been answered, whatever the order of their reads and writes, the
\* stored row holds every value either of them supplied.
C26_DisjointUpdatesBothApply ==
    \A id \in TargetIds : \A s, t \in Slots :
        (/\ s # t
         /\ UpdatedBy(s, id)
         /\ UpdatedBy(t, id)
         /\ Supplied(request[s].data) \cap Supplied(request[t].data) = {}
         /\ id \in DOMAIN crontabs) =>
            /\ \A c \in Supplied(request[s].data) :
                  crontabs[id][c] = Updates(request[s].data)[c]
            /\ \A c \in Supplied(request[t].data) :
                  crontabs[id][c] = Updates(request[t].data)[c]

\* An update of the name alone and an update of the tags alone wrote one
\* after the other before either read the row again: each was answered with
\* both new values.
C26_Witness ==
    \E s, t \in Slots :
        /\ UpdatedBy(s, 1)
        /\ UpdatedBy(t, 1)
        /\ Supplied(request[s].data) = {"name"}
        /\ Supplied(request[t].data) = {"tags"}
        /\ response[s].body[1].tags = Updates(request[t].data).tags
        /\ response[t].body[1].name = request[s].data.name
        /\ crontabs[1].name = request[s].data.name
        /\ crontabs[1].tags = Updates(request[t].data).tags

\* C27: no step of an update adds a row to the table or removes one, and an
\* update that reads the row again after it was deleted is answered 404 with
\* no row.
C27_UpdateNeverResurrects ==
    [][\A s \in Slots :
          UpdateStep(s) =>
             /\ DOMAIN crontabs' = DOMAIN crontabs
             /\ (Answered(s) /\ request[s].id \notin DOMAIN crontabs) =>
                   response'[s] = Reply(HTTP_404_NOT_FOUND, NoRow)]_vars

\* An update found its row, the row was deleted before the update wrote or
\* read it again, and the update was answered 404 with the id absent.
C27_Witness ==
    \E s \in Slots :
        /\ pc[s] = "done"
        /\ request[s].op = "update"
        /\ DOMAIN locals[s] # {}
        /\ Deleted(request[s].id)
        /\ request[s].id \notin DOMAIN crontabs
        /\ response[s] = Reply(HTTP_404_NOT_FOUND, NoRow)

(***************************************************************************)
(* The generation loops of occurrences_for_window and heatmap_for_window   *)
(* step by step: one step for each job the loop takes up and one for each  *)
(* turn of the while loop of _iter_schedule.  The iterator keeps the       *)
(* expanded schedule and the instant it last returned.                     *)
(***************************************************************************)
\* Whether minute m (minutes since the epoch) matches.
MinuteMatches(exp, m) ==
    /\ DayMatches(exp, m \div MinutesPerDay)
    /\ HourOf(m) \in exp.sets[2]
    /\ (m % 60) \in exp.sets[1]

\* How far get_next searches before it gives up.
HorizonDays == FourYears

\* The matching minutes from minute c to the end of its day.
LaterSameDay(exp, c) ==
    IF DayMatches(exp, c \div MinutesPerDay)
    THEN MinutesOn(exp, {c \div MinutesPerDay}, c,
                   ((c \div MinutesPerDay) + 1) * MinutesPerDay - 1)
    ELSE {}

\* The first matching minute of the first of the days, none without a day.
FirstOnDays(exp, days) ==
    IF days = {} THEN <<>>
    ELSE <<Min(days) * MinutesPerDay + Min(exp.sets[2]) * 60 + Min(exp.sets[1])>>

FirstLater(exp, c, same) ==
    IF same # {} THEN <<Min(same)>>
    ELSE FirstOnDays(exp, {d \in ((c \div MinutesPerDay) + 1)
                                   ..((c \div MinutesPerDay) + HorizonDays) :
                             DayMatches(exp, d)})

\* it.get_next(datetime): <<m>> for the earliest matching minute m later than
\* cur cut to whole seconds, <<>> when the search passes the horizon (the
\* call raises, and _iter_schedule catches it).
get_next(exp, cur) ==
    IF MinuteMatches(exp, FirstMinuteAfter(cur)) THEN <<FirstMinuteAfter(cur)>>
    ELSE FirstLater(exp, FirstMinuteAfter(cur),
                    LaterSameDay(exp, FirstMinuteAfter(cur)))

CapWindowDays == 35

\* A day and a month that never meet, and a minute out of range.
NeverSchedule ==
    JoinWith(<< <<"0">>, <<"0">>, <<"3", "0">>, <<"2">>, Star>>, <<" ">>)

RejectedSchedule ==
    JoinWith(<< <<"6", "1">>, Star, Star, Star, Star>>, <<" ">>)

\* Job lists as a caller of the two functions may hand them over.
JobOf(i, schedule) ==
    ParsedJob(i, schedule \o <<" ", "x">>, schedule, <<"x">>, TRUE, None)

JobsOf(schedules) == [i \in DOMAIN schedules |-> JobOf(i, schedules[i])]

CapJobs ==
    { JobsOf(<<EveryMinuteSchedule, HourlySchedule>>),
      JobsOf(<<NeverSchedule, HourlySchedule>>),
      JobsOf(<<RejectedSchedule, HourlySchedule>>) }

\* Five weeks from midnight, the same from half a second (one tick) past
\* midnight, and two hours.
CapWindows ==
    { <<0, CapWindowDays * Day>>, <<1, CapWindowDays * Day>>, <<0, 2 * Hour>> }

NoCounts == [key \in (0..23) \X (0..6) |-> 0]

NotYielded == [count |-> 0, first |-> <<>>, last |-> <<>>]

InitCap ==
    /\ pc = "call"
    /\ raw_text = <<>>
    /\ result = NoResult
    /\ \E fn \in {"occurrences_for_window", "heatmap_for_window"},
          jobs \in CapJobs, window \in CapWindows :
          request = [fn |-> fn, jobs |-> jobs, from_dt |-> window[1],
                     to_dt |-> window[2], limit |-> DefaultLimit]
    /\ response = None
    /\ crontabs = <<>>
    /\ clock = 0
    /\ uuids = 0
    /\ locals = <<>>

\* The head of either function, up to its loop.
BeginCall ==
    /\ pc = "call"
    /\ locals' = [eligible |-> _eligible_jobs(request.jobs, FALSE),
                  k |-> 1, it |-> <<>>, count |-> 0,
                  counts |-> NoCounts, pairs |-> <<>>,
                  yielded |-> [i \in DOMAIN _eligible_jobs(request.jobs, FALSE)
                                 |-> NotYielded]]
    /\ pc' = "job"
    /\ UNCHANGED <<raw_text, result, request, response, crontabs, clock, uuids>>

\* The generator of job k is exhausted: the loop goes on to the next job.
JobDone ==
    /\ locals' = [locals EXCEPT !.k = @ + 1, !.it = <<>>, !.count = 0]
    /\ pc' = "job"
    /\ UNCHANGED <<raw_text, result, request, response, crontabs, clock, uuids>>

\* croniter(schedule, ...) raises ValueError, which _iter_schedule catches.
RejectSchedule ==
    /\ pc = "job"
    /\ locals.k <= Len(locals.eligible)
    /\ ~is_valid(locals.eligible[locals.k].schedule)
    /\ JobDone

\* it = croniter(schedule, from_dt - timedelta(seconds=1)); count = 0
OpenIterator ==
    /\ pc = "job"
    /\ locals.k <= Len(locals.eligible)
    /\ is_valid(locals.eligible[locals.k].schedule)
    /\ locals' = [locals EXCEPT
                     !.it = <<[exp |-> Expand(locals.eligible[locals.k].schedule),
                               cur |-> request.from_dt - Second]>>,
                     !.count = 0]
    /\ pc' = "next"
    /\ UNCHANGED <<raw_text, result, request, response, crontabs, clock, uuids>>

\* while count < _PER_JOB_MAX fails.
CapReached ==
    /\ pc = "next"
    /\ locals.count >= _PER_JOB_MAX
    /\ JobDone

\* get_next raises: except (ValueError, KeyError): return
Unreachable ==
    /\ pc = "next"
    /\ locals.count < _PER_JOB_MAX
    /\ get_next(locals.it[1].exp, locals.it[1].cur) = <<>>
    /\ JobDone

\* if dt > to_dt: break
PastWindow ==
    /\ pc = "next"
    /\ locals.count < _PER_JOB_MAX
    /\ get_next(locals.it[1].exp, locals.it[1].cur) # <<>>
    /\ get_next(locals.it[1].exp, locals.it[1].cur)[1] * Minute > request.to_dt
    /\ JobDone

\* What the loop has received from the generator of a job, dt included.
YieldedWith(y, dt) ==
    [count |-> y.count + 1, first |-> IF y.count = 0 THEN <<dt>> ELSE y.first,
     last |-> <<dt>>]

\* The generator after yield dt; count += 1
Advanced(l, dt) ==
    [l EXCEPT !.it = <<[exp |-> l.it[1].exp, cur |-> dt]>>,
              !.count = @ + 1,
              !.yielded = [@ EXCEPT ![l.k] = YieldedWith(@, dt)]]

\* yield dt, and the body of the loop of heatmap_for_window.
YieldToHeatmap(dt) ==
    /\ request.fn = "heatmap_for_window"
    /\ locals' = [Advanced(locals, dt) EXCEPT !.counts[CellKey(dt)] = @ + 1]
    /\ UNCHANGED <<pc, response>>

\* yield dt, and the body of the loop of occurrences_for_window, which reads
\* job.description.
YieldToOccurrences(dt) ==
    /\ request.fn = "occurrences_for_window"
    /\ IF HasAttr(locals.eligible[locals.k], "description")
       THEN /\ locals' = [Advanced(locals, dt) EXCEPT
                             !.pairs = Append(@, <<locals.k, dt>>)]
            /\ UNCHANGED <<pc, response>>
       ELSE /\ response' = AttributeError
            /\ pc' = "raised"
            /\ UNCHANGED locals

Yield ==
    /\ pc = "next"
    /\ locals.count < _PER_JOB_MAX
    /\ get_next(locals.it[1].exp, locals.it[1].cur) # <<>>
    /\ get_next(locals.it[1].exp, locals.it[1].cur)[1] * Minute <= request.to_dt
    /\ \/ YieldToHeatmap(get_next(locals.it[1].exp, locals.it[1].cur)[1] * Minute)
       \/ YieldToOccurrences(get_next(locals.it[1].exp, locals.it[1].cur)[1] * Minute)
    /\ UNCHANGED <<raw_text, result, request, crontabs, clock, uuids>>

\* sorted(counts.items()) as cells.
CellsOfKeys(keys, counts) ==
    [r \in 1..Len(keys) |->
        [hour |-> keys[r][1], day |-> keys[r][2], count |-> counts[keys[r]]]]

CellsOfCounts(counts) ==
    CellsOfKeys(InOrder({key \in DOMAIN counts : counts[key] > 0}), counts)

\* The loop is over: the sort and the truncation, or the cells and max_count.
Return ==
    /\ pc = "job"
    /\ locals.k > Len(locals.eligible)
    /\ response' =
          IF request.fn = "heatmap_for_window"
          THEN HeatmapOfCells(CellsOfCounts(locals.counts), request.from_dt,
                              request.to_dt, 0)
          ELSE [raised |-> FALSE, from_dt |-> request.from_dt,
                to_dt |-> request.to_dt,
                items |-> Truncated(locals.eligible, SortByInstant(locals.pairs),
                                    request.limit),
                filtered_noisy_count |-> 0]
    /\ pc' = "returned"
    /\ UNCHANGED <<raw_text, result, request, crontabs, clock, uuids, locals>>

NextCap ==
    \/ BeginCall
    \/ RejectSchedule
    \/ OpenIterator
    \/ CapReached
    \/ Unreachable
    \/ PastWindow
    \/ Yield
    \/ Return

SpecCap == InitCap /\ [][NextCap]_vars

\* The matching minutes of a schedule that lie in [from_dt, to_dt]; none for
\* a schedule croniter rejects.
InWindowMinutes(schedule) ==
    IF is_valid(schedule)
    THEN MatchingMinutes(schedule, -((-request.from_dt) \div Minute),
                         request.to_dt \div Minute)
    ELSE {}

\* What was received from a generator is the earliest _PER_JOB_MAX of the
\* matches S, or all of them when they are fewer.
EarliestOf(y, S) ==
    /\ y.count = Min({Cardinality(S), _PER_JOB_MAX})
    /\ y.count > 0 =>
          /\ y.first = <<Min(S) * Minute>>
          /\ Cardinality({m \in S : m * Minute <= y.last[1]}) = y.count

\* C22: no generator yields more than 50,000 instants; a call of
\* heatmap_for_window does not raise, and when it has returned, what each job
\* yielded is the earliest 50,000 of its matches in the window, or all of
\* them when they are fewer, whatever the other jobs yielded.
C22_PerJobCap ==
    /\ pc \in {"job", "next", "returned"} =>
          \A k \in DOMAIN locals.yielded : locals.yielded[k].count <= _PER_JOB_MAX
    /\ request.fn = "heatmap_for_window" => pc # "raised"
    /\ (pc = "returned" /\ request.fn = "heatmap_for_window") =>
          \A k \in DOMAIN locals.eligible :
              EarliestOf(locals.yielded[k],
                         InWindowMinutes(locals.eligible[k].schedule))

\* croniter rejects the schedule, or its first get_next finds no match
\* within the horizon.
ExpanderFails(schedule) ==
    \/ ~is_valid(schedule)
    \/ get_next(Expand(schedule), request.from_dt - Second) = <<>>

\* Every match S of a job in the window was received from its generator.
AllReceived(y, S) ==
    /\ y.count >= Cardinality(S)
    /\ \A m \in S : y.first[1] <= m * Minute /\ m * Minute <= y.last[1]

\* Job k of the call is not capped and its expander does not fail.
CompleteJob(k) ==
    /\ ~ExpanderFails(locals.eligible[k].schedule)
    /\ Cardinality(InWindowMinutes(locals.eligible[k].schedule)) <= _PER_JOB_MAX

\* The call has a job whose expander fails.
HasFailingJob == \E k \in DOMAIN request.jobs : ExpanderFails(request.jobs[k].schedule)

\* C23: a call with a job whose expander fails does not raise, and when it
\* has returned that job has yielded nothing beyond what preceded the
\* failure while every other job has yielded all its matches in the window.
C23_ExpanderFailureIsSilent ==
    HasFailingJob =>
        /\ pc # "raised"
        /\ pc = "returned" =>
              \A k \in DOMAIN locals.eligible :
                  /\ ExpanderFails(locals.eligible[k].schedule) =>
                        locals.yielded[k] = NotYielded
                  /\ CompleteJob(k) =>
                        AllReceived(locals.yielded[k],
                                    InWindowMinutes(locals.eligible[k].schedule))

\* C24: a job is disabled exactly when the line it was read from, trimmed,
\* starts with "#"; a job read from an uncommented line is enabled, with an
\* error or without.
C24_DisabledIffCommented ==
    Parsed =>
        \A k \in DOMAIN Jobs :
            /\ ~Jobs[k].enabled <=>
                  startswith(strip(Lines[Jobs[k].line_number]), "#")
            /\ IsUncommentedLine(Lines[Jobs[k].line_number]) => Jobs[k].enabled

\* A disabled job from a commented line next to an enabled job that carries
\* an error.
C24_Witness ==
    /\ Parsed
    /\ \E k \in DOMAIN Jobs :
          /\ ~Jobs[k].enabled
          /\ startswith(strip(Lines[Jobs[k].line_number]), "#")
    /\ \E k \in DOMAIN Jobs : Jobs[k].enabled /\ Jobs[k].error # None

\* C25: when the resolved window is empty, occurrences_for_window returns no
\* item and heatmap_for_window no cell and max_count 0, neither raises, and
\* filtered_noisy_count is the number of distinct noisy schedules among the
\* eligible jobs when hide_noisy is set and 0 otherwise.
C25_EmptyWindow ==
    (pc \in {"occurrences", "heatmap"} /\ ResolvedFrom > ResolvedTo) =>
        /\ NoisyCountReported
        /\ pc = "occurrences" => response.items = <<>>
        /\ pc = "heatmap" => response.cells = <<>> /\ response.max_count = 0

====
